---- MODULE Spec2Model ----
(***************************************************************************)
(* State-machine model of rat-scroll: the ScrollState offset model, the    *)
(* mapping of pointer positions and layout_scroll (src/src/scroll.rs), the *)
(* ViewState window offsets (src/src/view.rs) and the frames of the        *)
(* composite wrapper Scrolled (src/src/scrolled.rs).                       *)
(*                                                                         *)
(* usize is modelled as the range 0..UsizeMax.  Saturating operations      *)
(* saturate at UsizeMax; the plain operators + and - of the source either  *)
(* panic (overflow checks on, the debug profile) or wrap modulo            *)
(* UsizeMax + 1 (overflow checks off, the release profile).                *)
(***************************************************************************)
EXTENDS Integers, Sequences, FiniteSets, TLC

\* Largest value of the modelled usize.
UsizeMax == 63
\* Inputs are drawn within Edge of either end of the usize range.
Edge == 1
\* Largest width/height of a rectangle.
MaxDim == 2
\* Longest run of items_added / items_removed calls.
MaxCalls == 2
\* Largest width/height of the area given to a layout or a composite render.
MaxLen == 5
\* Largest x/y of such an area.
MaxPos == 1
\* Largest start/end margin of a scrollbar.
MaxMargin == 1
\* Largest value of a usize wide enough for the worked example of
\* map_position_index.
WideMax == 1023

Modulus == UsizeMax + 1
Usize == 0..UsizeMax
Sample == (0..Edge) \cup ((UsizeMax - Edge)..UsizeMax)

Min(a, b) == IF a <= b THEN a ELSE b
Max(a, b) == IF a >= b THEN a ELSE b

\* Option<usize>
None == [some |-> FALSE, val |-> 0]
Some(v) == [some |-> TRUE, val |-> v]
OptionOf(S) == {None} \cup {Some(v) : v \in S}

VARIABLES
    offset,           \* ScrollState.offset
    max_offset,       \* ScrollState.max_offset
    page_len,         \* ScrollState.page_len
    scroll_by,        \* ScrollState.scroll_by : Option<usize>
    overscroll_by,    \* ScrollState.overscroll_by : Option<usize>
    area,             \* ViewState.area : Rect
    view_area,        \* ViewState.view_area : Rect
    h_offset,         \* ViewState.h_offset
    v_offset,         \* ViewState.v_offset
    overflow_checks,  \* build profile: TRUE = arithmetic overflow panics
    panicked,         \* the last call panicked; the program has stopped
    call,             \* the last call: [op, a, b]
    prev,             \* the call before the last (runs of items_* calls)
    ncalls,           \* length of the run of items_* calls
    pre,              \* offset and max_offset before the last items_* call
    ret,              \* changed-flag returned by the last call (if any)
    ret_usize,        \* usize returned by the last call (if any)
    args,             \* arguments of the call of a pure function
    result,           \* what that call produced
    scrolled,         \* ScrolledState of the composite wrapper
    frame             \* the last composite render: inputs and decisions

scrollVars == <<offset, max_offset, page_len, scroll_by, overscroll_by>>
viewVars == <<area, view_area, h_offset, v_offset>>
ctlVars == <<overflow_checks, panicked, call, prev, ncalls, pre, ret, ret_usize>>
pureVars == <<args, result>>
scrolledVars == <<scrolled, frame>>
vars == <<scrollVars, viewVars, ctlVars, pureVars, scrolledVars>>

(***************************************************************************)
(* usize arithmetic                                                        *)
(***************************************************************************)
saturating_add(a, b) == IF a + b > UsizeMax THEN UsizeMax ELSE a + b
saturating_sub(a, b) == IF a < b THEN 0 ELSE a - b

\* The plain operators: the wrapped value and whether the exact result is
\* out of range.
Add(a, b) == [v |-> (a + b) % Modulus, ovf |-> a + b > UsizeMax]
Sub(a, b) == [v |-> (a - b + Modulus) % Modulus, ovf |-> a < b]

(***************************************************************************)
(* ScrollState                                                             *)
(***************************************************************************)
Self == [offset |-> offset, max_offset |-> max_offset, page_len |-> page_len,
         scroll_by |-> scroll_by, overscroll_by |-> overscroll_by]

\* Results of a method call on a state: returned normally / panicked.
Returned(self, r) == [self |-> self, ret |-> r, panic |-> FALSE]
Panicked(self) == [self |-> self, ret |-> FALSE, panic |-> TRUE]

\* ScrollState::overscroll_by()
get_overscroll_by(self) ==
    IF self.overscroll_by.some THEN self.overscroll_by.val ELSE 0

limit_offset_wrapping(self, o) ==
    Min(o, (self.max_offset + get_overscroll_by(self)) % Modulus)

limit_offset(self, o) ==
    Min(o, saturating_add(self.max_offset, get_overscroll_by(self)))

set_offset(self, o) ==
    LET new == limit_offset(self, o)
    IN Returned([self EXCEPT !.offset = new], self.offset # new)

scroll_to_pos_center(self, pos, checks) ==
    LET new == saturating_sub(pos, self.page_len \div 2)
    IN Returned([self EXCEPT !.offset = new], self.offset # new)

scroll_to_pos(self, pos, checks) ==
    LET end == Add(self.offset, self.page_len)
    IN  IF end.ovf /\ checks THEN Panicked(self)
        ELSE IF pos >= end.v THEN
            LET d == Sub(pos, self.page_len)
                e == Add(d.v, 1)
            IN  IF (d.ovf \/ e.ovf) /\ checks THEN Panicked(self)
                ELSE Returned([self EXCEPT !.offset = e.v], self.offset # e.v)
        ELSE IF pos < self.offset THEN
            Returned([self EXCEPT !.offset = pos], self.offset # pos)
        ELSE Returned(self, FALSE)

scroll_up_unlimited(self, n) ==
    LET new == saturating_sub(self.offset, n)
    IN Returned([self EXCEPT !.offset = new], self.offset # new)

scroll_up(self, n) ==
    LET new == limit_offset(self, saturating_sub(self.offset, n))
    IN Returned([self EXCEPT !.offset = new], self.offset # new)

scroll_down_wrapping(self, n) ==
    LET new == limit_offset(self, Add(self.offset, n).v)
    IN Returned([self EXCEPT !.offset = new], self.offset # new)

scroll_down(self, n) ==
    LET new == limit_offset(self, saturating_add(self.offset, n))
    IN Returned([self EXCEPT !.offset = new], self.offset # new)

scroll_left(self, n) == scroll_up(self, n)

scroll_right(self, n) == scroll_down(self, n)

get_scroll_by_unfloored(self) ==
    IF self.scroll_by.some
    THEN self.scroll_by.val
    ELSE self.page_len \div 10

\* ScrollState::scroll_by()
get_scroll_by(self) ==
    IF self.scroll_by.some
    THEN Max(self.scroll_by.val, 1)
    ELSE Max(self.page_len \div 10, 1)

set_max_offset(self, max) == Returned([self EXCEPT !.max_offset = max], FALSE)

set_overscroll_by(self, overscroll) ==
    Returned([self EXCEPT !.overscroll_by = overscroll], FALSE)

set_page_len(self, page) == Returned([self EXCEPT !.page_len = page], FALSE)

set_scroll_by(self, scroll) == Returned([self EXCEPT !.scroll_by = scroll], FALSE)

items_added_strict(self, pos, n, checks) ==
    LET o == IF self.offset > pos THEN Add(self.offset, n)
             ELSE [v |-> self.offset, ovf |-> FALSE]
        m == Add(self.max_offset, n)
    IN  IF o.ovf /\ checks THEN Panicked(self)
        ELSE IF m.ovf /\ checks THEN Panicked([self EXCEPT !.offset = o.v])
        ELSE Returned([self EXCEPT !.offset = o.v, !.max_offset = m.v], FALSE)

\* `self.offset += n` runs first: when `self.max_offset += n` panics the
\* offset is already shifted.
items_added(self, pos, n, checks) ==
    LET o == IF self.offset >= pos THEN Add(self.offset, n)
             ELSE [v |-> self.offset, ovf |-> FALSE]
        m == Add(self.max_offset, n)
    IN  IF o.ovf /\ checks THEN Panicked(self)
        ELSE IF m.ovf /\ checks THEN Panicked([self EXCEPT !.offset = o.v])
        ELSE Returned([self EXCEPT !.offset = o.v, !.max_offset = m.v], FALSE)

items_removed_keep_max(self, pos, n, checks) ==
    LET o == IF self.offset >= pos THEN Sub(self.offset, n)
             ELSE [v |-> self.offset, ovf |-> FALSE]
    IN  IF o.ovf /\ checks THEN Panicked(self)
        ELSE Returned([self EXCEPT !.offset = o.v], FALSE)

\* `self.offset -= n` is the plain operator; max_offset saturates.
items_removed(self, pos, n, checks) ==
    LET o == IF self.offset >= pos THEN Sub(self.offset, n)
             ELSE [v |-> self.offset, ovf |-> FALSE]
    IN  IF o.ovf /\ checks THEN Panicked(self)
        ELSE Returned([self EXCEPT !.offset = o.v,
                                   !.max_offset = saturating_sub(self.max_offset, n)],
                      FALSE)

(***************************************************************************)
(* ViewState.  Rect dimensions are u16 and saturate at 0.                  *)
(***************************************************************************)
Rect(x, y, width, height) == [x |-> x, y |-> y, width |-> width, height |-> height]
Size(width, height) == [width |-> width, height |-> height]

ViewSelf == [area |-> area, view_area |-> view_area,
             h_offset |-> h_offset, v_offset |-> v_offset]

view_render_ref_at_origin(state, view_size, a) ==
    [state EXCEPT !.area = a,
                  !.view_area = Rect(0, 0, view_size.width, view_size.height)]

\* render_ref of View: what it stores in the ViewState.
view_render_ref(state, view_size, a) ==
    [state EXCEPT !.area = a,
                  !.view_area = Rect(a.x, a.y, view_size.width, view_size.height)]

set_vertical_offset_always_true(state, o) ==
    LET new == IF state.v_offset < state.view_area.height THEN o
               ELSE saturating_sub(state.view_area.height, 1)
    IN [state |-> [state EXCEPT !.v_offset = new], ret |-> TRUE]

set_vertical_offset_as_requested(state, o) ==
    [state |-> [state EXCEPT !.v_offset = o], ret |-> state.v_offset # o]

set_vertical_offset(state, o) ==
    LET new == IF state.v_offset < state.view_area.height THEN o
               ELSE saturating_sub(state.view_area.height, 1)
    IN [state |-> [state EXCEPT !.v_offset = new], ret |-> state.v_offset # new]

set_horizontal_offset(state, o) ==
    LET new == IF state.h_offset < state.view_area.width THEN o
               ELSE saturating_sub(state.view_area.width, 1)
    IN [state |-> [state EXCEPT !.h_offset = new], ret |-> state.h_offset # new]

(***************************************************************************)
(* Mapping a pointer position on a track to an offset.  Cell coordinates   *)
(* and lengths are u16 values far below the end of their range, so their   *)
(* sums are exact; the products are usize values.  Integer division by     *)
(* zero panics in every build profile.                                     *)
(***************************************************************************)
saturating_mul_to(word_max, a, b) == IF a * b > word_max THEN word_max ELSE a * b
saturating_mul(a, b) == saturating_mul_to(UsizeMax, a, b)
Mul(a, b) == [v |-> (a * b) % Modulus, ovf |-> a * b > UsizeMax]

\* Outcome of a call that returns a usize: the value / a panic.
Value(v) == [v |-> v, panic |-> FALSE]
Panic == [v |-> 0, panic |-> TRUE]

\* ScrollState::map_position_index for a usize whose largest value is
\* word_max.
map_position_index_in(word_max, max, pos, base, length) ==
    LET p == saturating_sub(saturating_sub(pos, base), 1)
        span == saturating_sub(length, 2)
    IN IF span = 0 THEN Panic
       ELSE Value(saturating_mul_to(word_max, max, p) \div span)

map_position_index_no_arrow(self, pos, base, length) ==
    map_position_index_in(UsizeMax, self.max_offset, pos + 1, base, length)

\* ScrollState::map_position_index(pos, base, length)
map_position_index(self, pos, base, length) ==
    map_position_index_in(UsizeMax, self.max_offset, pos, base, length)

track_pos_whole_track(max, coord, origin, length, checks) ==
    LET row == saturating_sub(coord, origin)
        product == Mul(max, row)
    IN IF product.ovf /\ checks THEN Panic
       ELSE IF length = 0 THEN Panic
       ELSE Value(product.v \div length)

\* mouse_handling of the composite wrapper: the offset for a pointer at
\* row/column coord on a track that starts at origin and is length long.
track_pos(max, coord, origin, length, checks) ==
    LET row == saturating_sub(saturating_sub(coord, origin), 1)
        height == saturating_sub(length, 2)
        product == Mul(max, row)
    IN IF product.ovf /\ checks THEN Panic
       ELSE IF height = 0 THEN Panic
       ELSE Value(product.v \div height)

(***************************************************************************)
(* Rectangles of cells                                                     *)
(***************************************************************************)
Cells(r) == {<<cx, cy>> : cx \in r.x..(r.x + r.width - 1), cy \in r.y..(r.y + r.height - 1)}
Overlap(r1, r2) == Cells(r1) \cap Cells(r2) # {}
IsEmpty(r) == r.width = 0 \/ r.height = 0

(***************************************************************************)
(* layout_scroll.  A Scroll is modelled by the fields the layout reads;    *)
(* unimplemented!() panics.                                                *)
(***************************************************************************)
Orientations == {"VerticalRight", "VerticalLeft", "HorizontalBottom", "HorizontalTop"}
VerticalOrientations == {"VerticalRight", "VerticalLeft"}
HorizontalOrientations == {"HorizontalBottom", "HorizontalTop"}

\* Option<&Scroll>
NoScroll == [some |-> FALSE, orientation |-> "VerticalRight", start_margin |-> 0, end_margin |-> 0]
ScrollOf(o, sm, em) == [some |-> TRUE, orientation |-> o, start_margin |-> sm, end_margin |-> em]
\* Scroll::default(): the derived Default takes ScrollbarOrientation's default.
DefaultScroll == ScrollOf("VerticalRight", 0, 0)

LayoutPanic == [panic |-> TRUE, h_area |-> Rect(0, 0, 0, 0), v_area |-> Rect(0, 0, 0, 0),
                inner |-> Rect(0, 0, 0, 0)]

layout_scroll_lenient(a, block, h_scroll, v_scroll) ==
    [panic |-> FALSE, h_area |-> Rect(a.x, a.y, 0, 0), v_area |-> Rect(a.x, a.y, 0, 0),
     inner |-> a]

layout_scroll_corner(a, block, h_scroll, v_scroll) ==
    [panic |-> FALSE,
     h_area |-> Rect(a.x, a.y + saturating_sub(a.height, 1), a.width, Min(a.height, 1)),
     v_area |-> Rect(a.x + saturating_sub(a.width, 1), a.y, Min(a.width, 1), a.height),
     inner |-> a]

layout_scroll_stacked(a, block, h_scroll, v_scroll) ==
    LET b == IF block THEN 1 ELSE 0
        l == b + (IF v_scroll.some /\ v_scroll.orientation = "VerticalLeft" THEN 1 ELSE 0)
        r == b + (IF v_scroll.some /\ v_scroll.orientation = "VerticalRight" THEN 1 ELSE 0)
        t == b + (IF h_scroll.some /\ h_scroll.orientation = "HorizontalTop" THEN 1 ELSE 0)
        m == b + (IF h_scroll.some /\ h_scroll.orientation = "HorizontalBottom" THEN 1 ELSE 0)
    IN [panic |-> FALSE, h_area |-> Rect(a.x, a.y, 0, 0), v_area |-> Rect(a.x, a.y, 0, 0),
        inner |-> Rect(a.x + l, a.y + t, saturating_sub(a.width, l + r),
                       saturating_sub(a.height, t + m))]

layout_scroll_full_track(a, block, h_scroll, v_scroll) ==
    [panic |-> FALSE,
     h_area |-> IF h_scroll.some
                THEN Rect(a.x, a.y + saturating_sub(a.height, 1), a.width, Min(a.height, 1))
                ELSE Rect(a.x, a.y, 0, 0),
     v_area |-> IF v_scroll.some
                THEN Rect(a.x + saturating_sub(a.width, 1), a.y, Min(a.width, 1), a.height)
                ELSE Rect(a.x, a.y, 0, 0),
     inner |-> a]

\* layout_scroll(area, block, h_scroll, v_scroll) -> (h_area, v_area, inner)
layout_scroll(a, block, h_scroll, v_scroll) ==
    LET border == IF block THEN 1 ELSE 0
        margin_left == IF v_scroll.some /\ v_scroll.orientation = "VerticalLeft" THEN 1 ELSE border
        margin_right == IF v_scroll.some /\ v_scroll.orientation = "VerticalRight" THEN 1 ELSE border
        margin_top == IF h_scroll.some /\ h_scroll.orientation = "HorizontalTop" THEN 1 ELSE border
        margin_bottom == IF h_scroll.some /\ h_scroll.orientation = "HorizontalBottom" THEN 1 ELSE border
        h_width == saturating_sub(a.width, margin_left + margin_right
                                           + h_scroll.start_margin + h_scroll.end_margin)
        v_height == saturating_sub(a.height, margin_top + margin_bottom
                                             + v_scroll.start_margin + v_scroll.end_margin)
        h_area == IF ~h_scroll.some THEN Rect(a.x, a.y, 0, 0)
                  ELSE IF h_scroll.orientation = "HorizontalBottom"
                  THEN Rect(a.x + margin_left + h_scroll.start_margin,
                            a.y + saturating_sub(a.height, 1),
                            h_width, IF a.height > 0 THEN 1 ELSE 0)
                  ELSE Rect(a.x + margin_left + h_scroll.start_margin, a.y,
                            h_width, IF a.height > 0 THEN 1 ELSE 0)
        v_area == IF ~v_scroll.some THEN Rect(a.x, a.y, 0, 0)
                  ELSE IF v_scroll.orientation = "VerticalRight"
                  THEN Rect(a.x + saturating_sub(a.width, 1),
                            a.y + margin_top + v_scroll.start_margin,
                            IF a.width > 0 THEN 1 ELSE 0, v_height)
                  ELSE Rect(a.x, a.y + margin_top + v_scroll.start_margin,
                            IF a.width > 0 THEN 1 ELSE 0, v_height)
        inner == Rect(a.x + margin_left, a.y + margin_top,
                      saturating_sub(a.width, margin_left + margin_right),
                      saturating_sub(a.height, margin_top + margin_bottom))
    IN IF h_scroll.some /\ h_scroll.orientation \in VerticalOrientations THEN LayoutPanic
       ELSE IF v_scroll.some /\ v_scroll.orientation \in HorizontalOrientations THEN LayoutPanic
       ELSE [panic |-> FALSE, h_area |-> h_area, v_area |-> v_area, inner |-> inner]

(***************************************************************************)
(* The composite wrapper Scrolled (src/src/scrolled.rs).  The content is   *)
(* any ScrollingWidget: what its need_scroll answers and the maximum       *)
(* offsets its state reports are inputs of a render.  A block is a Block   *)
(* with all four borders.                                                  *)
(***************************************************************************)
\* Option<Rect>
NoRect == [some |-> FALSE, rect |-> Rect(0, 0, 0, 0)]
SomeRect(r) == [some |-> TRUE, rect |-> r]

ScrollbarPolicies == {"Always", "AsNeeded", "Never"}

ScrollbarPolicy_apply_unless_never(policy, scroll) ==
    IF policy = "Never" THEN FALSE ELSE TRUE

\* ScrollbarPolicy::apply(scroll)
ScrollbarPolicy_apply(policy, scroll) ==
    CASE policy = "Always" -> TRUE
      [] policy = "AsNeeded" -> scroll
      [] policy = "Never" -> FALSE

\* Block::inner(area) of the block.
block_inner(a) ==
    LET x1 == Min(a.x + 1, a.x + a.width)
        y1 == Min(a.y + 1, a.y + a.height)
    IN Rect(x1, y1, saturating_sub(saturating_sub(a.width, 1), 1),
            saturating_sub(saturating_sub(a.height, 1), 1))

\* ScrolledImpl: the configuration render_ref reads.
ScrolledOf(block, hp, vp, track_style) ==
    [block |-> block, h_scroll_policy |-> hp, v_scroll_policy |-> vp,
     h_scroll_position |-> "Bottom", v_scroll_position |-> "Right",
     h_overscroll |-> 0, v_overscroll |-> 0, track_style |-> track_style]

\* Scrolled::h_scroll_position / v_scroll_position: the configured sides.
ScrolledWith(cfg, hpos, vpos) ==
    [cfg EXCEPT !.h_scroll_position = hpos, !.v_scroll_position = vpos]

\* Scrolled::vertical_overscroll / horizontal_overscroll
ScrolledOver(cfg, v_overscroll, h_overscroll) ==
    [cfg EXCEPT !.v_overscroll = v_overscroll, !.h_overscroll = h_overscroll]

\* HScrollPosition::orientation / VScrollPosition::orientation
HScrollPosition_orientation(pos) ==
    IF pos = "Top" THEN "HorizontalTop" ELSE "HorizontalBottom"
VScrollPosition_orientation(pos) ==
    IF pos = "Left" THEN "VerticalLeft" ELSE "VerticalRight"

\* Scrollbar::new(orientation) rendered into its scrollbar area: the column
\* (row) of that area the track is drawn in.
track_column(orientation, rect) ==
    IF orientation = "VerticalLeft" THEN rect.x ELSE rect.x + rect.width - 1
track_row(orientation, rect) ==
    IF orientation = "HorizontalTop" THEN rect.y ELSE rect.y + rect.height - 1

\* ScrolledState::default(): widget is the content's state.
ScrolledStateDefault ==
    [widget |-> [v_offset |-> 0, h_offset |-> 0, v_max_offset |-> 0, h_max_offset |-> 0,
                 v_page |-> 0, h_page |-> 0],
     area |-> Rect(0, 0, 0, 0), view_area |-> Rect(0, 0, 0, 0),
     h_scrollbar_area |-> NoRect, v_scrollbar_area |-> NoRect,
     v_overscroll |-> 0, h_overscroll |-> 0, v_drag |-> FALSE, h_drag |-> FALSE]

\* render_ref: the area handed to need_scroll.
tentative_view_area(cfg, a) ==
    IF cfg.block THEN block_inner(a)
    ELSE Rect(a.x, a.y,
              IF cfg.h_scroll_policy # "Never" THEN saturating_sub(a.width, 1) ELSE a.width,
              IF cfg.v_scroll_policy # "Never" THEN saturating_sub(a.height, 1) ELSE a.height)

vscrollbar_area_full(cfg, a, has_hscroll) ==
    Rect(a.x + a.width - 1, a.y, 1, a.height)

\* render_ref: the vertical track of a frame that shows it (area.width > 0).
vscrollbar_area(cfg, a, has_hscroll) ==
    LET last == Rect(a.x + a.width - 1, a.y, 1, a.height)
        inside == IF cfg.block
                  THEN [last EXCEPT !.y = last.y + 1, !.height = saturating_sub(last.height, 1)]
                  ELSE last
    IN IF has_hscroll THEN [inside EXCEPT !.height = saturating_sub(inside.height, 1)]
       ELSE inside

\* render_ref: the horizontal track of a frame that shows it (area.height > 0).
hscrollbar_area(cfg, a, has_vscroll) ==
    LET last == Rect(a.x, a.y + a.height - 1, a.width, 1)
        inside == IF cfg.block
                  THEN [last EXCEPT !.x = last.x + 1, !.width = saturating_sub(last.width, 1)]
                  ELSE last
    IN IF has_vscroll THEN [inside EXCEPT !.width = saturating_sub(inside.width, 1)]
       ELSE inside

\* render_ref: the view area of the frame.
actual_view_area(cfg, a, has_hscroll, has_vscroll) ==
    IF cfg.block THEN block_inner(a)
    ELSE Rect(a.x, a.y,
              IF has_vscroll THEN saturating_sub(a.width, 1) ELSE a.width,
              IF has_hscroll THEN saturating_sub(a.height, 1) ELSE a.height)

\* render_ref of the composite wrapper up to the rendering of the content.
\* need is what need_scroll answered: <<horizontal, vertical>>.
\* columns().last() / rows().last() of an empty area is None: expect panics.
scrolled_render_ref(cfg, need, a, state) ==
    LET has_hscroll == ScrollbarPolicy_apply(cfg.h_scroll_policy, need[1])
        has_vscroll == ScrollbarPolicy_apply(cfg.v_scroll_policy, need[2])
        s0 == [state EXCEPT !.area = a, !.v_overscroll = cfg.v_overscroll,
                            !.h_overscroll = cfg.h_overscroll]
        v_panic == has_vscroll /\ a.width = 0
        s1 == IF has_vscroll /\ ~v_panic
              THEN [s0 EXCEPT !.v_scrollbar_area = SomeRect(vscrollbar_area(cfg, a, has_hscroll))]
              ELSE s0
        h_panic == has_hscroll /\ a.height = 0
        s2 == IF has_hscroll /\ ~h_panic
              THEN [s1 EXCEPT !.h_scrollbar_area = SomeRect(hscrollbar_area(cfg, a, has_vscroll))]
              ELSE s1
        s3 == [s2 EXCEPT !.view_area = actual_view_area(cfg, a, has_hscroll, has_vscroll)]
    IN [state |-> IF v_panic THEN s0 ELSE IF h_panic THEN s1 ELSE s3,
        panic |-> v_panic \/ h_panic,
        has_hscroll |-> has_hscroll, has_vscroll |-> has_vscroll]

\* render_ref: whether the drawing of a scrollbar paints anything: the
\* scrollbar itself, or the track style when the content cannot scroll.
chrome_drawn(scrollbar_area, max, track_style) ==
    scrollbar_area.some /\ ~IsEmpty(scrollbar_area.rect) /\ (max # 0 \/ track_style)

(***************************************************************************)
(* The composite state: offsets and events.  The content is a              *)
(* ScrollingState that stores the offset it is given; its maximum offsets  *)
(* and page lengths are its own.  Operations take the width of usize       *)
(* (word_max) and the build profile (checks) and return the new state, the *)
(* returned value and whether the call panicked.                           *)
(***************************************************************************)
ContentOf(v_max, h_max, v_page, h_page) ==
    [v_offset |-> 0, h_offset |-> 0, v_max_offset |-> v_max, h_max_offset |-> h_max,
     v_page |-> v_page, h_page |-> h_page]

AddIn(word_max, a, b) == [v |-> (a + b) % (word_max + 1), ovf |-> a + b > word_max]

Done(state, r) == [state |-> state, ret |-> r, panic |-> FALSE]
Failed(state) == [state |-> state, ret |-> FALSE, panic |-> TRUE]

\* ScrollingState::set_vertical_offset / set_horizontal_offset of the content
content_set_vertical_offset(state, o) ==
    Done([state EXCEPT !.widget.v_offset = o], state.widget.v_offset # o)
content_set_horizontal_offset(state, o) ==
    Done([state EXCEPT !.widget.h_offset = o], state.widget.h_offset # o)

\* ScrollingState::vertical_scroll / horizontal_scroll: the content's step
content_vertical_scroll(state) == Max(state.widget.v_page \div 10, 1)
content_horizontal_scroll(state) == Max(state.widget.h_page \div 10, 1)

\* ScrollingState::scroll_up / scroll_left of the content
content_scroll_up(state, n) ==
    content_set_vertical_offset(state, saturating_sub(state.widget.v_offset, n))
content_scroll_left(state, n) ==
    content_set_horizontal_offset(state, saturating_sub(state.widget.h_offset, n))

scrolled_set_vertical_offset_unlimited(word_max, checks, state, o) ==
    content_set_vertical_offset(state, o)

\* ScrolledState::set_vertical_offset
scrolled_set_vertical_offset(word_max, checks, state, o) ==
    LET limit == AddIn(word_max, state.widget.v_max_offset, state.v_overscroll)
    IN IF limit.ovf /\ checks THEN Failed(state)
       ELSE content_set_vertical_offset(state, Min(o, limit.v))

\* ScrolledState::set_horizontal_offset
scrolled_set_horizontal_offset(word_max, checks, state, o) ==
    LET limit == AddIn(word_max, state.widget.h_max_offset, state.h_overscroll)
    IN IF limit.ovf /\ checks THEN Failed(state)
       ELSE content_set_horizontal_offset(state, Min(o, limit.v))

\* ScrolledState::scroll_up / scroll_left
scrolled_scroll_up(word_max, checks, state, n) ==
    scrolled_set_vertical_offset(word_max, checks, state,
                                 saturating_sub(state.widget.v_offset, n))
scrolled_scroll_left(word_max, checks, state, n) ==
    scrolled_set_horizontal_offset(word_max, checks, state,
                                   saturating_sub(state.widget.h_offset, n))

scrolled_scroll_down_by_one(word_max, checks, state, n) ==
    scrolled_set_vertical_offset(word_max, checks, state, state.widget.v_offset + 1)

\* ScrolledState::scroll_down
scrolled_scroll_down(word_max, checks, state, n) ==
    LET sum == AddIn(word_max, state.widget.v_offset, n)
        limit == AddIn(word_max, state.widget.v_max_offset, state.v_overscroll)
    IN IF (sum.ovf \/ limit.ovf) /\ checks THEN Failed(state)
       ELSE scrolled_set_vertical_offset(word_max, checks, state, Min(sum.v, limit.v))

\* ScrolledState::scroll_right
scrolled_scroll_right(word_max, checks, state, n) ==
    LET sum == AddIn(word_max, state.widget.h_offset, n)
        limit == AddIn(word_max, state.widget.h_max_offset, state.h_overscroll)
    IN IF (sum.ovf \/ limit.ovf) /\ checks THEN Failed(state)
       ELSE scrolled_set_horizontal_offset(word_max, checks, state, Min(sum.v, limit.v))

\* Rect::contains(Position::new(column, row))
Contains(r, column, row) ==
    /\ r.x <= column /\ column < r.x + r.width
    /\ r.y <= row /\ row < r.y + r.height

\* ScrollOutcome and ConsumedEvent::is_consumed for it
NotUsed == [tag |-> "NotUsed", inner |-> FALSE]
Changed == [tag |-> "Changed", inner |-> FALSE]
Inner(r) == [tag |-> "Inner", inner |-> r]
is_consumed(outcome) ==
    CASE outcome.tag = "Inner" -> outcome.inner
      [] outcome.tag = "NotUsed" -> FALSE
      [] OTHER -> TRUE

Handled(r, asked) ==
    [state |-> r.state, outcome |-> IF r.ret THEN Changed ELSE NotUsed,
     panic |-> r.panic, asked |-> asked]
Unhandled(state, asked) ==
    [state |-> state, outcome |-> NotUsed, panic |-> FALSE, asked |-> asked]

Crashed(state, asked) ==
    [state |-> state, outcome |-> NotUsed, panic |-> TRUE, asked |-> asked]

\* mouse_handling(widget, event, MouseOnly)
mouse_handling(word_max, checks, state, ev, asked) ==
    LET v == state.v_scrollbar_area
        h == state.h_scrollbar_area
        w == state.widget
        v_pos == track_pos(w.v_max_offset, ev.row, v.rect.y, v.rect.height, checks)
        h_pos == track_pos(w.h_max_offset, ev.column, h.rect.x, h.rect.width, checks)
        inside == Contains(state.area, ev.column, ev.row)
    IN CASE ev.kind = "down" ->
              IF v.some /\ Contains(v.rect, ev.column, ev.row)
              THEN IF v_pos.panic THEN Crashed(state, asked)
                   ELSE Handled(content_set_vertical_offset(
                                    [state EXCEPT !.v_drag = TRUE], v_pos.v), asked)
              ELSE IF h.some /\ Contains(h.rect, ev.column, ev.row)
              THEN IF h_pos.panic THEN Crashed(state, asked)
                   ELSE Handled(content_set_horizontal_offset(
                                    [state EXCEPT !.h_drag = TRUE], h_pos.v), asked)
              ELSE Unhandled(state, asked)
         [] ev.kind = "drag" ->
              IF state.v_drag /\ v.some
              THEN IF v_pos.panic THEN Crashed(state, asked)
                   ELSE Handled(scrolled_set_vertical_offset(word_max, checks, state,
                                                             v_pos.v), asked)
              ELSE IF state.h_drag /\ h.some
              THEN IF h_pos.panic THEN Crashed(state, asked)
                   ELSE Handled(scrolled_set_horizontal_offset(word_max, checks, state,
                                                               h_pos.v), asked)
              ELSE Unhandled(state, asked)
         [] ev.kind = "moved" ->
              Unhandled([state EXCEPT !.v_drag = FALSE, !.h_drag = FALSE], asked)
         [] ev.kind = "scroll_down" /\ inside ->
              Handled(scrolled_scroll_down(word_max, checks, state,
                                           content_vertical_scroll(state)), asked)
         [] ev.kind = "scroll_up" /\ inside ->
              Handled(content_scroll_up(state, content_vertical_scroll(state)), asked)
         [] ev.kind = "scroll_alt_down" /\ inside ->
              Handled(scrolled_scroll_right(word_max, checks, state,
                                            content_horizontal_scroll(state)), asked)
         [] ev.kind = "scroll_alt_up" /\ inside ->
              Handled(content_scroll_left(state, content_horizontal_scroll(state)), asked)
         [] OTHER -> Unhandled(state, asked)

forward_filter_unfiltered(state, ev, consumed) ==
    [outcome |-> Inner(consumed), asked |-> TRUE]

\* forward_filter: whether the content's handler is asked, and the outcome.
\* consumed is what the content's handler answers when it is asked.
forward_filter(state, ev, consumed) ==
    IF ev.kind \in {"down", "scroll_down", "scroll_up", "scroll_alt_down", "scroll_alt_up"}
    THEN IF Contains(state.view_area, ev.column, ev.row)
         THEN [outcome |-> Inner(consumed), asked |-> TRUE]
         ELSE [outcome |-> NotUsed, asked |-> FALSE]
    ELSE [outcome |-> Inner(consumed), asked |-> TRUE]

\* HandleEvent::handle of ScrolledState:
\* forward_filter(..).or_else(|| mouse_handling(..))
scrolled_handle(word_max, checks, state, ev, consumed) ==
    LET f == forward_filter(state, ev, consumed)
    IN IF is_consumed(f.outcome)
       THEN [state |-> state, outcome |-> f.outcome, panic |-> FALSE, asked |-> f.asked]
       ELSE mouse_handling(word_max, checks, state, ev, f.asked)

(***************************************************************************)
(* The window mechanism: View's extent query, the derived maximum offsets  *)
(* and the copy of the virtual surface into the drawing area.  A cell of   *)
(* the drawing area shows either a cell of the virtual surface, named by   *)
(* its coordinates, or the fallback style.                                 *)
(***************************************************************************)
view_need_scroll_or_equal(view_size, a) ==
    <<a.width <= view_size.width, a.height <= view_size.height>>

\* ScrollingWidget::need_scroll of View: <<horizontal, vertical>>
view_need_scroll(view_size, a) ==
    <<a.width < view_size.width, a.height < view_size.height>>

\* ScrollingState::vertical_max_offset / horizontal_max_offset of ViewState
view_vertical_max_offset(state) == saturating_sub(state.view_area.height, state.area.height)
view_horizontal_max_offset(state) == saturating_sub(state.view_area.width, state.area.width)

FallbackCell == [content |-> FALSE, x |-> 0, y |-> 0]
ContentCell(x, y) == [content |-> TRUE, x |-> x, y |-> y]

\* copy_buffer(view_area, view_buf, v_offset, h_offset, style, area, buf):
\* the window of the virtual surface that starts at the offsets is copied to
\* the drawing area; cells beyond the surface get the style.
copy_buffer(v_area, v_off, h_off, a) ==
    [c \in Cells(a) |->
        LET col == (c[1] - a.x) + h_off
            row == (c[2] - a.y) + v_off
        IN IF col < v_area.width /\ row < v_area.height
           THEN ContentCell(v_area.x + col, v_area.y + row)
           ELSE FallbackCell]

(***************************************************************************)
(* Calls.  A call that panics stops the program: nothing runs after it.    *)
(***************************************************************************)
ApplyScroll(r, op, a, b) ==
    /\ offset' = r.self.offset
    /\ max_offset' = r.self.max_offset
    /\ page_len' = r.self.page_len
    /\ scroll_by' = r.self.scroll_by
    /\ overscroll_by' = r.self.overscroll_by
    /\ ret' = r.ret
    /\ panicked' = r.panic
    /\ call' = [op |-> op, a |-> a, b |-> b]
    /\ UNCHANGED <<overflow_checks, ret_usize>>
    /\ UNCHANGED <<viewVars, pureVars, scrolledVars>>

Apply(r, op, a, b) ==
    ApplyScroll(r, op, a, b) /\ UNCHANGED <<prev, ncalls, pre>>

ApplyCounted(r, op, a, b) ==
    /\ ncalls < MaxCalls
    /\ ApplyScroll(r, op, a, b)
    /\ prev' = call
    /\ pre' = [offset |-> offset, max_offset |-> max_offset]
    /\ ncalls' = ncalls + 1

CallSetOffset(o) ==
    ~panicked /\ Apply(set_offset(Self, o), "set_offset", o, 0)

CallScrollToPos(pos) ==
    ~panicked /\ Apply(scroll_to_pos(Self, pos, overflow_checks), "scroll_to_pos", pos, 0)

CallScrollUp(n) ==
    ~panicked /\ Apply(scroll_up(Self, n), "scroll_up", n, 0)

CallScrollDown(n) ==
    ~panicked /\ Apply(scroll_down(Self, n), "scroll_down", n, 0)

CallScrollLeft(n) ==
    ~panicked /\ Apply(scroll_left(Self, n), "scroll_left", n, 0)

CallScrollRight(n) ==
    ~panicked /\ Apply(scroll_right(Self, n), "scroll_right", n, 0)

CallItemsAdded(at, n) ==
    ~panicked /\ ApplyCounted(items_added(Self, at, n, overflow_checks), "items_added", at, n)

CallItemsRemoved(at, n) ==
    ~panicked /\ ApplyCounted(items_removed(Self, at, n, overflow_checks), "items_removed", at, n)

CallSetPageLen(page) ==
    ~panicked /\ Apply(set_page_len(Self, page), "set_page_len", page, 0)

CallSetScrollBy(scroll) ==
    ~panicked /\ Apply(set_scroll_by(Self, scroll), "set_scroll_by",
                       IF scroll.some THEN 1 ELSE 0, scroll.val)

CallScrollBy ==
    /\ ~panicked
    /\ ret_usize' = get_scroll_by(Self)
    /\ call' = [op |-> "scroll_by", a |-> 0, b |-> 0]
    /\ UNCHANGED <<scrollVars, viewVars, overflow_checks, panicked, prev, ncalls, pre, ret>>
    /\ UNCHANGED <<pureVars, scrolledVars>>

\* A call of the pure ScrollState::limit_offset(offset).
CallLimitOffset(o) ==
    /\ ~panicked
    /\ ret_usize' = limit_offset(Self, o)
    /\ call' = [op |-> "limit_offset", a |-> o, b |-> 0]
    /\ UNCHANGED <<scrollVars, viewVars, overflow_checks, panicked, prev, ncalls, pre, ret>>
    /\ UNCHANGED <<pureVars, scrolledVars>>

ApplyView(r, op, a, b) ==
    /\ area' = r.state.area
    /\ view_area' = r.state.view_area
    /\ h_offset' = r.state.h_offset
    /\ v_offset' = r.state.v_offset
    /\ ret' = r.ret
    /\ call' = [op |-> op, a |-> a, b |-> b]
    /\ UNCHANGED <<scrollVars, overflow_checks, panicked, prev, ncalls, pre, ret_usize>>
    /\ UNCHANGED <<pureVars, scrolledVars>>

CallViewRender(view_size, a) ==
    /\ ~panicked
    /\ ApplyView([state |-> view_render_ref(ViewSelf, view_size, a), ret |-> FALSE],
                 "render", 0, 0)

CallSetVerticalOffset(o) ==
    ~panicked /\ ApplyView(set_vertical_offset(ViewSelf, o), "set_vertical_offset", o, 0)

CallSetHorizontalOffset(o) ==
    ~panicked /\ ApplyView(set_horizontal_offset(ViewSelf, o), "set_horizontal_offset", o, 0)

NoCall == [op |-> "new", a |-> 0, b |-> 0]
ZeroRect == Rect(0, 0, 0, 0)

\* ViewState::default()
ViewDefault ==
    /\ area = ZeroRect
    /\ view_area = ZeroRect
    /\ h_offset = 0
    /\ v_offset = 0

\* No pure call is pending, no composite wrapper is in use.
NoArgs == [pos |-> 0, base |-> 0, length |-> 0]
NoResult == [v |-> 0, panic |-> FALSE]
NoFrame == [asked_area |-> ZeroRect, need |-> <<FALSE, FALSE>>,
            h_max_offset |-> 0, v_max_offset |-> 0,
            has_hscroll |-> FALSE, has_vscroll |-> FALSE,
            h_drawn |-> FALSE, v_drawn |-> FALSE]
NoPure == args = NoArgs /\ result = NoResult
NoScrolled == scrolled = ScrolledStateDefault /\ frame = NoFrame

CallInit ==
    /\ panicked = FALSE
    /\ call = NoCall
    /\ prev = NoCall
    /\ ncalls = 0
    /\ pre = [offset |-> offset, max_offset |-> max_offset]
    /\ ret = FALSE
    /\ ret_usize = 0

CtlInit ==
    /\ overflow_checks \in BOOLEAN
    /\ CallInit
    /\ NoPure
    /\ NoScrolled

(***************************************************************************)
(* Spec: the offset mutators on a configured ScrollState.  max_offset,     *)
(* page_len and overscroll_by are as the widget set them and stay fixed;   *)
(* the offset starts within the limit.                                     *)
(***************************************************************************)
Configured == [offset |-> 0, max_offset |-> max_offset, page_len |-> page_len,
               scroll_by |-> scroll_by, overscroll_by |-> overscroll_by]

Init ==
    /\ max_offset \in Sample
    /\ page_len \in Sample
    /\ overscroll_by \in OptionOf(0..Edge)
    /\ scroll_by = None
    /\ offset \in {o \in Sample : o = limit_offset(Configured, o)}
    /\ ViewDefault
    /\ CtlInit

Next ==
    \/ \E o \in Sample : CallSetOffset(o)
    \/ \E pos \in Sample : CallScrollToPos(pos)
    \/ \E n \in Sample : CallScrollUp(n)
    \/ \E n \in Sample : CallScrollDown(n)
    \/ \E n \in Sample : CallScrollLeft(n)
    \/ \E n \in Sample : CallScrollRight(n)

Spec == Init /\ [][Next]_vars

(***************************************************************************)
(* SpecLimit: limit_offset for every offset of the usize range, and        *)
(* set_offset.                                                             *)
(***************************************************************************)
InitLimit ==
    /\ max_offset \in Sample
    /\ overscroll_by \in OptionOf(Sample)
    /\ page_len = 0
    /\ scroll_by = None
    /\ offset = 0
    /\ ViewDefault
    /\ CtlInit

NextLimit ==
    \/ \E o \in Usize : CallLimitOffset(o)
    \/ \E o \in Sample : CallSetOffset(o)

SpecLimit == InitLimit /\ [][NextLimit]_vars

(***************************************************************************)
(* SpecItems: items_added / items_removed on a ScrollState.                *)
(***************************************************************************)
\* ScrollState::default()
ScrollDefault ==
    /\ offset = 0
    /\ max_offset = 0
    /\ page_len = 0
    /\ scroll_by = None
    /\ overscroll_by = None

InitItems ==
    /\ max_offset \in Sample
    /\ offset \in {o \in Sample : o <= max_offset}
    /\ page_len = 0
    /\ scroll_by = None
    /\ overscroll_by = None
    /\ ViewDefault
    /\ CtlInit

NextItems ==
    \/ \E at \in Sample, n \in Sample : CallItemsAdded(at, n)
    \/ \E at \in Sample, n \in Sample : CallItemsRemoved(at, n)

SpecItems == InitItems /\ [][NextItems]_vars

(***************************************************************************)
(* SpecStep: the effective step ScrollState::scroll_by().                  *)
(***************************************************************************)
InitStep ==
    /\ offset = 0
    /\ max_offset = 0
    /\ page_len \in Usize
    /\ scroll_by \in OptionOf(Usize)
    /\ overscroll_by = None
    /\ ViewDefault
    /\ CtlInit

NextStep ==
    \/ CallScrollBy
    \/ \E p \in Sample : CallSetPageLen(p)
    \/ \E sb \in OptionOf(Sample) : CallSetScrollBy(sb)

SpecStep == InitStep /\ [][NextStep]_vars

(***************************************************************************)
(* SpecView: a ViewState, rendered and scrolled.                           *)
(***************************************************************************)
Dims == 0..MaxDim
ViewOffsets == 0..(MaxDim + 1)

NextView ==
    \/ \E w \in Dims, h \in Dims, aw \in Dims, ah \in Dims :
          CallViewRender(Size(w, h), Rect(0, 0, aw, ah))
    \/ \E o \in ViewOffsets : CallSetVerticalOffset(o)
    \/ \E o \in ViewOffsets : CallSetHorizontalOffset(o)

InitView == ScrollDefault /\ ViewDefault /\ CtlInit

SpecView == InitView /\ [][NextView]_vars

(***************************************************************************)
(* SpecSetters: every offset setter.  A run works on one object: the       *)
(* ScrollState while the ViewState is untouched, or the ViewState next to  *)
(* a default ScrollState.                                                  *)
(***************************************************************************)
ScrollUntouched == ScrollDefault /\ call.op \in {"new", "render", "set_vertical_offset", "set_horizontal_offset"}
ViewUntouched == ViewDefault /\ call.op \notin {"render", "set_vertical_offset", "set_horizontal_offset"}

NextSetters ==
    \/ \E o \in Sample : ViewUntouched /\ CallSetOffset(o)
    \/ \E pos \in Sample : ViewUntouched /\ CallScrollToPos(pos)
    \/ \E n \in Sample : ViewUntouched /\ CallScrollUp(n)
    \/ \E n \in Sample : ViewUntouched /\ CallScrollDown(n)
    \/ \E w \in Dims, h \in Dims, aw \in Dims, ah \in Dims :
          ScrollUntouched /\ CallViewRender(Size(w, h), Rect(0, 0, aw, ah))
    \/ \E o \in ViewOffsets : ScrollUntouched /\ CallSetVerticalOffset(o)
    \/ \E o \in ViewOffsets : ScrollUntouched /\ CallSetHorizontalOffset(o)

SpecSetters == Init /\ [][NextSetters]_vars

(***************************************************************************)
(* SpecMap: one mapping of a pointer position per run, by                  *)
(* ScrollState::map_position_index or by the wrapper's mouse handling.     *)
(* The maximum offset is that of the ScrollState, which is also what a     *)
(* content built on it reports to the wrapper.                             *)
(***************************************************************************)
Origins == 0..MaxPos
TrackLengths == 0..(MaxLen + 2)
Positions == 0..(MaxPos + MaxLen + 2)

InitMap ==
    /\ offset = 0
    /\ max_offset \in Usize
    /\ page_len = 0
    /\ scroll_by = None
    /\ overscroll_by = None
    /\ ViewDefault
    /\ overflow_checks \in BOOLEAN
    /\ CallInit
    /\ args \in [pos : Positions, base : Origins, length : TrackLengths]
    /\ result = NoResult
    /\ NoScrolled

ApplyPure(r, op) ==
    /\ ~panicked
    /\ call = NoCall
    /\ result' = r
    /\ panicked' = r.panic
    /\ call' = [op |-> op, a |-> 0, b |-> 0]
    /\ UNCHANGED <<scrollVars, viewVars, overflow_checks, prev, ncalls, pre, ret>>
    /\ UNCHANGED <<args, scrolledVars>>

CallMapPositionIndex ==
    LET r == map_position_index(Self, args.pos, args.base, args.length)
    IN ApplyPure(r, "map_position_index") /\ ret_usize' = r.v

CallTrackPos ==
    LET r == track_pos(max_offset, args.pos, args.base, args.length, overflow_checks)
    IN ApplyPure(r, "track_pos") /\ ret_usize' = r.v

NextMap ==
    \/ CallMapPositionIndex
    \/ CallTrackPos

SpecMap == InitMap /\ [][NextMap]_vars

(***************************************************************************)
(* SpecLayout: one call of layout_scroll per run.                          *)
(***************************************************************************)
Coords == {0, MaxPos}
Lens == 0..MaxLen
Rects == {Rect(x, y, w, h) : x \in Coords, y \in Coords, w \in Lens, h \in Lens}
Margins == 0..MaxMargin
Scrolls == {NoScroll} \cup {ScrollOf(o, sm, em) : o \in Orientations, sm \in Margins, em \in Margins}

InitLayout ==
    /\ ScrollDefault
    /\ ViewDefault
    /\ overflow_checks = TRUE
    /\ CallInit
    /\ args \in [area : Rects, block : BOOLEAN, h_scroll : Scrolls, v_scroll : Scrolls]
    /\ result = NoResult
    /\ NoScrolled

CallLayoutScroll ==
    /\ ApplyPure(layout_scroll(args.area, args.block, args.h_scroll, args.v_scroll),
                 "layout_scroll")
    /\ UNCHANGED ret_usize

NextLayout == CallLayoutScroll

SpecLayout == InitLayout /\ [][NextLayout]_vars

(***************************************************************************)
(* SpecScrolled: the frames of a composite wrapper.  The application       *)
(* builds the same Scrolled for the same area in every frame; what the     *)
(* content answers changes from frame to frame.                            *)
(***************************************************************************)
Scrolleds == {ScrolledOf(b, hp, vp, ts) : b \in BOOLEAN, hp \in ScrollbarPolicies,
                                          vp \in ScrollbarPolicies, ts \in BOOLEAN}
MaxOffsets == {0, Edge}
\* Outer areas: off the origin in one direction or the other.
Corners == {<<0, MaxPos>>, <<MaxPos, 0>>}
Areas == {Rect(c[1], c[2], w, h) : c \in Corners, w \in Lens, h \in Lens}

InitScrolled ==
    /\ ScrollDefault
    /\ ViewDefault
    /\ overflow_checks = TRUE
    /\ CallInit
    /\ args \in [scrolled : Scrolleds, area : Areas]
    /\ result = NoResult
    /\ scrolled = ScrolledStateDefault
    /\ frame = NoFrame

\* Scrolled::render / render_ref with what the content answers in this frame.
CallScrolledRender(need, h_max, v_max) ==
    LET r == scrolled_render_ref(args.scrolled, need, args.area, scrolled)
    IN /\ ~panicked
       /\ scrolled' = r.state
       /\ panicked' = r.panic
       /\ frame' = [asked_area |-> tentative_view_area(args.scrolled, args.area),
                    need |-> need,
                    h_max_offset |-> h_max,
                    v_max_offset |-> v_max,
                    has_hscroll |-> r.has_hscroll,
                    has_vscroll |-> r.has_vscroll,
                    h_drawn |-> ~r.panic /\ chrome_drawn(r.state.h_scrollbar_area, h_max,
                                                         args.scrolled.track_style),
                    v_drawn |-> ~r.panic /\ chrome_drawn(r.state.v_scrollbar_area, v_max,
                                                         args.scrolled.track_style)]
       /\ call' = [op |-> "render_ref", a |-> 0, b |-> 0]
       /\ UNCHANGED <<scrollVars, viewVars, overflow_checks, prev, ncalls, pre, ret, ret_usize>>
       /\ UNCHANGED pureVars

NextScrolled ==
    \E h \in BOOLEAN, v \in BOOLEAN, h_max \in MaxOffsets, v_max \in MaxOffsets :
        CallScrolledRender(<<h, v>>, h_max, v_max)

SpecScrolled == InitScrolled /\ [][NextScrolled]_vars

(***************************************************************************)
(* SpecSides: the frames of a composite wrapper whose tracks are           *)
(* configured for either side.                                             *)
(***************************************************************************)
HScrollPositions == {"Top", "Bottom"}
VScrollPositions == {"Left", "Right"}
SidedScrolleds ==
    {ScrolledWith(ScrolledOf(b, hp, vp, FALSE), hpos, vpos) :
        b \in BOOLEAN, hp \in ScrollbarPolicies, vp \in ScrollbarPolicies,
        hpos \in HScrollPositions, vpos \in VScrollPositions}
SidedAreas == {Rect(c[1], c[2], w, h) : c \in Corners, w \in 1..MaxDim, h \in 1..MaxDim}

InitSides ==
    /\ ScrollDefault
    /\ ViewDefault
    /\ overflow_checks = TRUE
    /\ CallInit
    /\ args \in [scrolled : SidedScrolleds, area : SidedAreas]
    /\ result = NoResult
    /\ scrolled = ScrolledStateDefault
    /\ frame = NoFrame

SpecSides == InitSides /\ [][NextScrolled]_vars

(***************************************************************************)
(* SpecEvents: one event handled by a composite state that a frame has     *)
(* laid out.  A drag flag is set only where a pointer-down can have set    *)
(* it: on a track with a usable span.                                      *)
(***************************************************************************)
ShownPolicies == {"Always", "Never"}
EventScrolleds ==
    {ScrolledOver(ScrolledOf(b, hp, vp, FALSE), ov, ov) :
        b \in BOOLEAN, hp \in ShownPolicies, vp \in ShownPolicies, ov \in {0, Edge}}
EventAreas == {Rect(c[1], c[2], n, n) : c \in Corners, n \in {MaxDim, MaxLen}}
EventContent == ContentOf(MaxLen + 1, MaxLen, 10 * MaxDim, 0)

Draggable(track, length) == track.some /\ saturating_sub(length, 2) > 0

EventStates(cfg, a) ==
    LET laid == scrolled_render_ref(cfg, <<FALSE, FALSE>>, a,
                                    [ScrolledStateDefault EXCEPT !.widget = EventContent]).state
        v == laid.v_scrollbar_area
        h == laid.h_scrollbar_area
        w == laid.widget
        v_limit == w.v_max_offset + cfg.v_overscroll
        h_limit == w.h_max_offset + cfg.h_overscroll
        offsets == {<<0, 0>>, <<Edge, Edge>>, <<v_limit - Edge, h_limit>>}
    IN {[laid EXCEPT !.widget.v_offset = o[1], !.widget.h_offset = o[2],
                     !.v_drag = vd, !.h_drag = hd] :
           o \in offsets,
           vd \in {FALSE} \cup (IF Draggable(v, v.rect.height) THEN {TRUE} ELSE {}),
           hd \in {FALSE} \cup (IF Draggable(h, h.rect.width) THEN {TRUE} ELSE {})}

\* Pointer positions: the last column, the last row, the two top left
\* corners and a cell beyond the area.
EventCells(a) ==
    {<<a.x + a.width - 1, y>> : y \in a.y..(a.y + a.height - 1)}
        \cup {<<x, a.y + a.height - 1>> : x \in a.x..(a.x + a.width - 1)}
        \cup {<<a.x, a.y>>, <<a.x + 1, a.y + 1>>, <<a.x + a.width, a.y + a.height>>}
PointerKinds == {"down", "drag", "scroll_down", "scroll_up", "scroll_alt_down", "scroll_alt_up"}
Events(a) ==
    {[kind |-> k, column |-> c[1], row |-> c[2]] : k \in PointerKinds, c \in EventCells(a)}
        \cup {[kind |-> k, column |-> a.x, row |-> a.y] : k \in {"moved", "key"}}

NoOutcome == [outcome |-> NotUsed, asked |-> FALSE, panic |-> FALSE]

InitEvents ==
    /\ ScrollDefault
    /\ ViewDefault
    /\ overflow_checks = TRUE
    /\ CallInit
    /\ \E cfg \in EventScrolleds, a \in EventAreas :
          \E s \in EventStates(cfg, a), e \in Events(a), c \in BOOLEAN :
             /\ args = [scrolled |-> cfg, area |-> a, state |-> s, event |-> e,
                        consumed |-> c]
             /\ scrolled = s
    /\ result = NoOutcome
    /\ frame = NoFrame

\* ScrolledState::handle(event, qualifier)
CallHandle ==
    LET r == scrolled_handle(UsizeMax, overflow_checks, scrolled, args.event, args.consumed)
    IN /\ ~panicked
       /\ call = NoCall
       /\ scrolled' = r.state
       /\ result' = [outcome |-> r.outcome, asked |-> r.asked, panic |-> r.panic]
       /\ panicked' = r.panic
       /\ call' = [op |-> "handle", a |-> 0, b |-> 0]
       /\ UNCHANGED <<scrollVars, viewVars, overflow_checks, prev, ncalls, pre, ret, ret_usize>>
       /\ UNCHANGED <<args, frame>>

NextEvents == CallHandle

SpecEvents == InitEvents /\ [][NextEvents]_vars

(***************************************************************************)
(* SpecOffsets: any sequence of offset calls and events on a composite     *)
(* state that a frame has laid out with both tracks, in either build       *)
(* profile.                                                                *)
(***************************************************************************)
OffsetArea == Rect(0, MaxPos, MaxLen, MaxLen)
OffsetContents ==
    {ContentOf(0, 0, 0, 0), ContentOf(MaxDim, MaxDim + 1, 10 * MaxDim, 0),
     ContentOf(UsizeMax, 0, 0, 0)}
OffsetInputs == {0, Edge, MaxDim + 1, UsizeMax}
OffsetEvents == {e \in Events(OffsetArea) : e.kind # "key"}

InitOffsets ==
    /\ ScrollDefault
    /\ ViewDefault
    /\ overflow_checks \in BOOLEAN
    /\ CallInit
    /\ NoPure
    /\ \E ov \in {0, Edge}, w \in OffsetContents :
          scrolled = scrolled_render_ref(
                         ScrolledOver(ScrolledOf(FALSE, "Always", "Always", FALSE), ov, ov),
                         <<FALSE, FALSE>>, OffsetArea,
                         [ScrolledStateDefault EXCEPT !.widget = w]).state
    /\ frame = NoFrame

ApplyScrolled(r, op) ==
    /\ ~panicked
    /\ scrolled' = r.state
    /\ panicked' = r.panic
    /\ call' = [op |-> op, a |-> 0, b |-> 0]
    /\ UNCHANGED <<scrollVars, viewVars, overflow_checks, prev, ncalls, pre, ret, ret_usize>>
    /\ UNCHANGED <<pureVars, frame>>

NextOffsets ==
    \/ \E o \in OffsetInputs :
          ApplyScrolled(scrolled_set_vertical_offset(UsizeMax, overflow_checks, scrolled, o),
                        "set_vertical_offset")
    \/ \E o \in OffsetInputs :
          ApplyScrolled(scrolled_set_horizontal_offset(UsizeMax, overflow_checks, scrolled, o),
                        "set_horizontal_offset")
    \/ \E n \in OffsetInputs :
          ApplyScrolled(scrolled_scroll_up(UsizeMax, overflow_checks, scrolled, n),
                        "scroll_up")
    \/ \E n \in OffsetInputs :
          ApplyScrolled(scrolled_scroll_down(UsizeMax, overflow_checks, scrolled, n),
                        "scroll_down")
    \/ \E n \in OffsetInputs :
          ApplyScrolled(scrolled_scroll_left(UsizeMax, overflow_checks, scrolled, n),
                        "scroll_left")
    \/ \E n \in OffsetInputs :
          ApplyScrolled(scrolled_scroll_right(UsizeMax, overflow_checks, scrolled, n),
                        "scroll_right")
    \/ \E e \in OffsetEvents, c \in BOOLEAN :
          ApplyScrolled(LET r == scrolled_handle(UsizeMax, overflow_checks, scrolled, e, c)
                        IN [state |-> r.state, panic |-> r.panic],
                        e.kind)

SpecOffsets == InitOffsets /\ [][NextOffsets]_vars

(***************************************************************************)
(* SpecShrink: the widget changes max_offset, overscroll_by and page_len   *)
(* between the offset mutators.  pre is the state before the last call.    *)
(***************************************************************************)
ApplyTracked(r, op, a, b) ==
    /\ ~panicked
    /\ ApplyScroll(r, op, a, b)
    /\ pre' = [offset |-> offset, max_offset |-> max_offset]
    /\ UNCHANGED <<prev, ncalls>>

InitShrink ==
    /\ max_offset \in Sample
    /\ page_len = 0
    /\ overscroll_by \in OptionOf(0..Edge)
    /\ scroll_by = None
    /\ offset \in {o \in Sample : o = limit_offset(Configured, o)}
    /\ ViewDefault
    /\ overflow_checks = TRUE
    /\ CallInit
    /\ NoPure
    /\ NoScrolled

NextShrink ==
    \/ \E m \in Sample : ApplyTracked(set_max_offset(Self, m), "set_max_offset", m, 0)
    \/ \E o \in OptionOf(0..Edge) :
          ApplyTracked(set_overscroll_by(Self, o), "set_overscroll_by",
                       IF o.some THEN 1 ELSE 0, o.val)
    \/ \E page \in Sample : ApplyTracked(set_page_len(Self, page), "set_page_len", page, 0)
    \/ \E o \in Sample : ApplyTracked(set_offset(Self, o), "set_offset", o, 0)
    \/ \E n \in Sample : ApplyTracked(scroll_up(Self, n), "scroll_up", n, 0)
    \/ \E n \in Sample : ApplyTracked(scroll_down(Self, n), "scroll_down", n, 0)

SpecShrink == InitShrink /\ [][NextShrink]_vars

(***************************************************************************)
(* Rendering a Scroll.  The widget is modelled by the fields render_scroll *)
(* reads, the state by all fields of ScrollState (drag is the drag flag of *)
(* its MouseFlags), the buffer by the set of cells render_scroll writes    *)
(* itself and by the call of the regular Scrollbar it makes.               *)
(***************************************************************************)
ScrollbarTypes == {"Show", "Minimal", "NoRender"}

ScrollWidget(policy, o, overscroll, scroll, no_symbol, no_style) ==
    [policy |-> policy, orientation |-> o, overscroll_by |-> overscroll,
     scroll_by |-> scroll, no_symbol |-> no_symbol, no_style |-> no_style]

\* A string option: Option<&str>, and Option<Style> by its name.
NoStr == [some |-> FALSE, val |-> ""]
SomeStr(v) == [some |-> TRUE, val |-> v]

\* ScrollState with all its fields
ScrollStateAt(a, o, off, max, page, scroll, overscroll, drag) ==
    [area |-> a, orientation |-> o, offset |-> off, max_offset |-> max,
     page_len |-> page, scroll_by |-> scroll, overscroll_by |-> overscroll,
     drag |-> drag]

\* ScrollbarOrientation::is_vertical / is_horizontal
is_vertical(self) == self.orientation \in {"VerticalRight", "VerticalLeft"}
is_horizontal(self) == self.orientation \in {"HorizontalBottom", "HorizontalTop"}

\* The call of Scrollbar::render with its ScrollbarState, or no call.
NoScrollbar == [called |-> FALSE, content_length |-> 0, position |-> 0, viewport |-> 0]
ScrollbarRender(state) ==
    [called |-> TRUE, content_length |-> state.max_offset,
     position |-> state.offset, viewport |-> state.page_len]

Painted(state, written, symbol, style, scrollbar) ==
    [state |-> state, written |-> written, symbol |-> symbol, style |-> style,
     scrollbar |-> scrollbar, panic |-> FALSE]

render_scroll_hidden_when_fits(scroll, a, state) ==
    LET oriented == [state EXCEPT !.orientation = scroll.orientation]
        placed == [oriented EXCEPT !.area = a]
    IN IF state.max_offset = 0
       THEN Painted(oriented, {}, NoStr, NoStr, NoScrollbar)
       ELSE Painted(placed, {}, NoStr, NoStr,
                    IF IsEmpty(a) THEN NoScrollbar ELSE ScrollbarRender(placed))

\* render_scroll(scroll, area, buf, state)
render_scroll(scroll, a, state) ==
    LET oriented == [state EXCEPT !.orientation = scroll.orientation]
        over == IF scroll.overscroll_by.some
                THEN set_overscroll_by(oriented, scroll.overscroll_by).self
                ELSE oriented
        stepped == IF scroll.scroll_by.some
                   THEN set_scroll_by(over, scroll.scroll_by).self
                   ELSE over
        placed == [stepped EXCEPT !.area = a]
        regular == Painted(placed, {}, NoStr, NoStr,
                           IF IsEmpty(a) THEN NoScrollbar ELSE ScrollbarRender(placed))
        sym == IF scroll.no_symbol.some THEN scroll.no_symbol.val
               ELSE IF is_vertical(scroll) THEN "U+250A"
               ELSE "U+2508"
    IN IF placed.max_offset = 0
       THEN CASE scroll.policy = "Show" -> regular
              [] scroll.policy = "Minimal" ->
                   Painted(placed, Cells(a), SomeStr(sym),
                           IF Cells(a) = {} THEN NoStr ELSE scroll.no_style,
                           NoScrollbar)
              [] scroll.policy = "NoRender" ->
                   Painted(placed, {}, NoStr, NoStr, NoScrollbar)
       ELSE regular

(***************************************************************************)
(* SpecRender: one render of a Scroll per run, into any small track area,  *)
(* for a state the content does or does not fit.                           *)
(***************************************************************************)
TrackAreas == {Rect(0, y, w, h) : y \in 0..MaxPos, w \in 0..MaxDim, h \in 0..MaxDim}
RenderStates ==
    {ScrollStateAt(ZeroRect, "VerticalRight", off, max, page, None, None, FALSE) :
        off \in 0..Edge, max \in 0..Edge, page \in 0..Edge}
NoPaint == Painted(ScrollStateAt(ZeroRect, "VerticalRight", 0, 0, 0, None, None, FALSE),
                   {}, NoStr, NoStr, NoScrollbar)

InitRender ==
    /\ ScrollDefault
    /\ ViewDefault
    /\ overflow_checks = TRUE
    /\ CallInit
    /\ \E policy \in ScrollbarTypes, o \in Orientations :
          \E overscroll \in OptionOf({Edge}), scroll \in OptionOf({Edge}) :
             \E no_symbol \in {NoStr, SomeStr("x")}, no_style \in {NoStr, SomeStr("dim")} :
                \E a \in TrackAreas, state \in RenderStates :
                   args = [scroll |-> ScrollWidget(policy, o, overscroll, scroll,
                                                   no_symbol, no_style),
                           area |-> a, state |-> state]
    /\ result = NoPaint
    /\ NoScrolled

CallRenderScroll ==
    ApplyPure(render_scroll(args.scroll, args.area, args.state), "render_scroll")
        /\ UNCHANGED ret_usize

NextRender == CallRenderScroll

SpecRender == InitRender /\ [][NextRender]_vars

(***************************************************************************)
(* Event handling of a ScrollState and of a ScrollArea.  An event is its   *)
(* kind and position; a ScrollOutcome is its variant and its usize.        *)
(***************************************************************************)
Continue == [tag |-> "Continue", n |-> 0]
Unchanged == [tag |-> "Unchanged", n |-> 0]
VPos(n) == [tag |-> "VPos", n |-> n]
HPos(n) == [tag |-> "HPos", n |-> n]
Down(n) == [tag |-> "Down", n |-> n]
Up(n) == [tag |-> "Up", n |-> n]
Right(n) == [tag |-> "Right", n |-> n]
Left(n) == [tag |-> "Left", n |-> n]

\* ConsumedEvent::is_consumed for the ScrollOutcome of this crate, which
\* flow! asks: every outcome but Continue ends the handling.
ScrollOutcome_is_consumed(outcome) == outcome.tag # "Continue"

MouseKinds == {"down", "drag", "up", "moved", "scroll_down", "scroll_up",
               "scroll_alt_down", "scroll_alt_up"}

\* MouseFlags::drag(area, event): a left pointer-down sets the flag iff it is
\* inside the area, a release or a move clears it, and a left pointer-drag is
\* a drag of this area while the flag is set, wherever the pointer is.
MouseFlags_drag(flag, a, ev) ==
    CASE ev.kind = "down" -> [flag |-> Contains(a, ev.column, ev.row), hit |-> FALSE]
      [] ev.kind = "drag" -> [flag |-> flag, hit |-> flag]
      [] ev.kind \in {"up", "moved"} -> [flag |-> FALSE, hit |-> FALSE]
      [] OTHER -> [flag |-> flag, hit |-> FALSE]

Reported(self, outcome) == [self |-> self, outcome |-> outcome, panic |-> FALSE]
Aborted(self) == [self |-> self, outcome |-> Continue, panic |-> TRUE]

TrackOutcome_jumping(self, ev) ==
    LET v == map_position_index(self, ev.row, self.area.y, self.area.height)
        h == map_position_index(self, ev.column, self.area.x, self.area.width)
        at == IF is_vertical(self) THEN v ELSE h
        moved == set_offset(self, at.v).self
    IN IF at.panic THEN Aborted(self)
       ELSE Reported(moved, IF is_vertical(self) THEN VPos(at.v) ELSE HPos(at.v))

\* The VPos/HPos of a pointer on the track of the state.
TrackOutcome(self, ev) ==
    LET v == map_position_index(self, ev.row, self.area.y, self.area.height)
        h == map_position_index(self, ev.column, self.area.x, self.area.width)
    IN IF is_vertical(self)
       THEN (IF v.panic THEN Aborted(self) ELSE Reported(self, VPos(v.v)))
       ELSE (IF h.panic THEN Aborted(self) ELSE Reported(self, HPos(h.v)))

\* ScrollState::handle(event, MouseOnly)
ScrollState_handle(self, ev) ==
    IF ev.kind \notin MouseKinds THEN Reported(self, Continue)
    ELSE
      LET d == MouseFlags_drag(self.drag, self.area, ev)
          flagged == [self EXCEPT !.drag = d.flag]
          inside == Contains(self.area, ev.column, ev.row)
      IN CASE d.hit ->
                IF is_vertical(flagged)
                THEN (IF ev.row >= flagged.area.y THEN TrackOutcome(flagged, ev)
                      ELSE Reported(flagged, Unchanged))
                ELSE (IF ev.column >= flagged.area.x THEN TrackOutcome(flagged, ev)
                      ELSE Reported(flagged, Unchanged))
           [] ~d.hit /\ ev.kind = "down" /\ inside -> TrackOutcome(flagged, ev)
           [] ev.kind = "scroll_down" /\ is_vertical(flagged) /\ inside ->
                Reported(flagged, Down(get_scroll_by(flagged)))
           [] ev.kind = "scroll_up" /\ is_vertical(flagged) /\ inside ->
                Reported(flagged, Up(get_scroll_by(flagged)))
           [] ev.kind = "scroll_alt_down" /\ is_horizontal(flagged) /\ inside ->
                Reported(flagged, Right(get_scroll_by(flagged)))
           [] ev.kind = "scroll_alt_up" /\ is_horizontal(flagged) /\ inside ->
                Reported(flagged, Left(get_scroll_by(flagged)))
           [] OTHER -> Reported(flagged, Continue)

\* Option<&mut ScrollState>
Absent == [some |-> FALSE,
           st |-> ScrollStateAt(ZeroRect, "VerticalRight", 0, 0, 0, None, None, FALSE)]
Present(state) == [some |-> TRUE, st |-> state]

AreaReported(h, v, outcome) == [h |-> h, v |-> v, outcome |-> outcome, panic |-> FALSE]
AreaAborted(h, v) == [h |-> h, v |-> v, outcome |-> Continue, panic |-> TRUE]

\* The second half of ScrollArea::handle: the vertical state.
ScrollArea_handle_vertical(a, h, v, ev) ==
    LET wheel ==
            CASE ev.kind = "scroll_down" /\ Contains(a, ev.column, ev.row) ->
                    Down(get_scroll_by(v.st))
              [] ev.kind = "scroll_up" /\ Contains(a, ev.column, ev.row) ->
                    Up(get_scroll_by(v.st))
              [] OTHER -> Continue
        own == ScrollState_handle(v.st, ev)
    IN IF ~v.some THEN AreaReported(h, v, Continue)
       ELSE IF ScrollOutcome_is_consumed(wheel) THEN AreaReported(h, v, wheel)
       ELSE IF own.panic THEN AreaAborted(h, Present(own.self))
       ELSE AreaReported(h, Present(own.self), own.outcome)

ScrollArea_handle_vertical_first(a, h, v, ev) ==
    LET first == ScrollArea_handle_vertical(a, Absent, v, ev)
        own == ScrollState_handle(h.st, ev)
    IN IF first.panic \/ ScrollOutcome_is_consumed(first.outcome) \/ ~h.some
       THEN [first EXCEPT !.h = h]
       ELSE IF own.panic THEN AreaAborted(Present(own.self), first.v)
       ELSE AreaReported(Present(own.self), first.v, own.outcome)

\* ScrollArea(area, hscroll, vscroll).handle(event, MouseOnly)
ScrollArea_handle(a, h, v, ev) ==
    LET wheel ==
            CASE ev.kind = "scroll_alt_down" /\ Contains(a, ev.column, ev.row) ->
                    Right(get_scroll_by(h.st))
              [] ev.kind = "scroll_alt_up" /\ Contains(a, ev.column, ev.row) ->
                    Left(get_scroll_by(h.st))
              [] OTHER -> Continue
        own == ScrollState_handle(h.st, ev)
    IN IF ~h.some THEN ScrollArea_handle_vertical(a, h, v, ev)
       ELSE IF ScrollOutcome_is_consumed(wheel) THEN AreaReported(h, v, wheel)
       ELSE IF own.panic THEN AreaAborted(Present(own.self), v)
       ELSE IF ScrollOutcome_is_consumed(own.outcome)
            THEN AreaReported(Present(own.self), v, own.outcome)
       ELSE ScrollArea_handle_vertical(a, Present(own.self), v, ev)

(***************************************************************************)
(* SpecHandle: one event per run, handled by a ScrollArea or by its        *)
(* vertical ScrollState alone.  The states are as render_scroll leaves     *)
(* them on the tracks of a laid out area, or fresh; a drag may be in       *)
(* progress.  The tracks meet in the corner in one of the layouts.         *)
(***************************************************************************)
HandleLens == 2..(MaxDim + 2)
HandleArea(len) == Rect(MaxPos, MaxPos, len, len)
HTrack(len, corner) == Rect(MaxPos, MaxPos + len, len + (IF corner THEN 1 ELSE 0), 1)
VTrack(len, corner) == Rect(MaxPos + len, MaxPos, 1, len + (IF corner THEN 1 ELSE 0))
HStates(len, corner) ==
    {Absent, Present(ScrollStateAt(ZeroRect, "VerticalRight", 0, 0, 0, None, None, FALSE))}
      \cup {Present(ScrollStateAt(HTrack(len, corner), o, Edge, MaxLen, 0, Some(2), None, d)) :
               o \in HorizontalOrientations, d \in BOOLEAN}
VStates(len, corner) ==
    {Absent, Present(ScrollStateAt(ZeroRect, "VerticalRight", 0, 0, 0, None, None, FALSE))}
      \cup {Present(ScrollStateAt(VTrack(len, corner), o, Edge, MaxLen + 2, 30, None, Some(Edge), d)) :
               o \in VerticalOrientations, d \in BOOLEAN}
HandleEvents(len) ==
    {[kind |-> k, column |-> c, row |-> r] :
        k \in MouseKinds \cup {"key"},
        c \in {0, MaxPos, MaxPos + len - 1, MaxPos + len, MaxPos + len + 1},
        r \in {0, MaxPos, MaxPos + len - 1, MaxPos + len, MaxPos + len + 1}}
NoReport == AreaReported(Absent, Absent, Continue)

InitHandle ==
    /\ ScrollDefault
    /\ ViewDefault
    /\ overflow_checks = TRUE
    /\ CallInit
    /\ \E len \in HandleLens, corner \in BOOLEAN :
          \E h \in HStates(len, corner), v \in VStates(len, corner), e \in HandleEvents(len) :
             args = [area |-> HandleArea(len), h |-> h, v |-> v, event |-> e]
    /\ result = NoReport
    /\ NoScrolled

CallScrollAreaHandle ==
    ApplyPure(ScrollArea_handle(args.area, args.h, args.v, args.event), "ScrollArea::handle")
        /\ UNCHANGED ret_usize

CallScrollStateHandle ==
    LET r == ScrollState_handle(args.v.st, args.event)
    IN /\ args.v.some
       /\ ApplyPure([h |-> args.h, v |-> Present(r.self), outcome |-> r.outcome,
                     panic |-> r.panic], "ScrollState::handle")
       /\ UNCHANGED ret_usize

NextHandle ==
    \/ CallScrollAreaHandle
    \/ CallScrollStateHandle

SpecHandle == InitHandle /\ [][NextHandle]_vars

(***************************************************************************)
(* SpecWindow: one extent query or one render of a View per run, for a     *)
(* ViewState with any stored offsets.                                      *)
(***************************************************************************)
Sizes == {Size(w, h) : w \in Dims, h \in Dims}
WindowAreas == {Rect(x, y, w, h) : x \in Coords, y \in Coords, w \in Dims, h \in Dims}

InitWindow ==
    /\ ScrollDefault
    /\ area = ZeroRect
    /\ view_area = ZeroRect
    /\ h_offset \in ViewOffsets
    /\ v_offset \in ViewOffsets
    /\ overflow_checks = TRUE
    /\ CallInit
    /\ args \in [view_size : Sizes, area : WindowAreas]
    /\ result = NoResult
    /\ NoScrolled

CallNeedScroll ==
    /\ ApplyPure([need |-> view_need_scroll(args.view_size, args.area), panic |-> FALSE],
                 "need_scroll")
    /\ UNCHANGED ret_usize

\* View::render: render_ref with the copy it makes.
CallWindowRender ==
    LET s == view_render_ref(ViewSelf, args.view_size, args.area)
    IN /\ ~panicked
       /\ call = NoCall
       /\ area' = s.area
       /\ view_area' = s.view_area
       /\ h_offset' = s.h_offset
       /\ v_offset' = s.v_offset
       /\ result' = [buf |-> copy_buffer(s.view_area, s.v_offset, s.h_offset, args.area),
                     panic |-> FALSE]
       /\ call' = [op |-> "render", a |-> 0, b |-> 0]
       /\ UNCHANGED <<scrollVars, overflow_checks, panicked, prev, ncalls, pre, ret, ret_usize>>
       /\ UNCHANGED <<args, scrolledVars>>

NextWindow ==
    \/ CallNeedScroll
    \/ CallWindowRender

SpecWindow == InitWindow /\ [][NextWindow]_vars

(***************************************************************************)
(* Properties                                                              *)
(***************************************************************************)
\* max_offset + overscroll_by as exact integers (overscroll_by 0 when unset).
ExactLimit == max_offset + get_overscroll_by(Self)

\* C1: after every call of an offset mutator (set_offset, scroll_up,
\* scroll_down, scroll_left, scroll_right, scroll_to_pos) on a state that
\* started within the limit, 0 <= offset <= max_offset + overscroll_by.
C1_OffsetWithinLimit ==
    0 <= offset /\ offset <= ExactLimit

\* C2: limit_offset(o) = min(o, max_offset + overscroll_by) for every usize
\* o, hence limit_offset(o) <= max_offset + overscroll_by, and limit_offset
\* is idempotent.
C2_LimitOffset ==
    call.op = "limit_offset" =>
        /\ ret_usize = Min(call.a, ExactLimit)
        /\ ret_usize <= ExactLimit
        /\ limit_offset(Self, ret_usize) = ret_usize

\* limit_offset(o) of an o above the limit returned the limit, here the
\* limit of a state whose max_offset + overscroll_by is a usize value > 0.
C2_Witness ==
    /\ call.op = "limit_offset"
    /\ call.a > ExactLimit
    /\ ExactLimit > 0
    /\ overscroll_by.some /\ overscroll_by.val > 0
    /\ ret_usize = ExactLimit

\* C3: scroll_up(n) stores limit(max(offset - n, 0)) and scroll_down(n)
\* stores limit(min(offset + n, usize::MAX)); neither call underflows, wraps
\* or panics, for every offset and n of the usize range.
C3_ScrollSaturates ==
    [][/\ call'.op \in {"scroll_up", "scroll_left"} =>
            /\ ~panicked'
            /\ offset' = Min(Max(offset - call'.a, 0), ExactLimit)
       /\ call'.op \in {"scroll_down", "scroll_right"} =>
            /\ ~panicked'
            /\ offset' = Min(Min(offset + call'.a, UsizeMax), ExactLimit)]_vars

\* scroll_down(n > 0) at offset usize::MAX: the exact sum is above
\* usize::MAX, the offset stayed at usize::MAX and the call returned false.
C3_Witness ==
    /\ call.op = "scroll_down"
    /\ call.a > 0
    /\ ~panicked
    /\ offset = UsizeMax
    /\ ret = FALSE

\* C5: scroll_to_pos(pos) is idempotent for every state: a second call with
\* the same pos leaves the offset unchanged and returns false.
C5_ScrollToPosIdempotent ==
    [][(/\ call.op = "scroll_to_pos"
        /\ call'.op = "scroll_to_pos"
        /\ call'.a = call.a)
       => (~panicked' /\ offset' = offset /\ ret' = FALSE)]_vars

\* The expressions of scroll_to_pos(pos) are usize values.
ScrollToPosInRange(pos) ==
    /\ offset + page_len <= UsizeMax
    /\ pos >= offset + page_len => pos - page_len + 1 <= UsizeMax

\* C6: scroll_to_pos(pos) makes the minimal adjustment: pos >= offset +
\* page_len gives pos - page_len + 1, else pos < offset gives pos, else the
\* offset is unchanged (wherever these expressions are usize values).
C6_ScrollToPosMinimal ==
    [][(call'.op = "scroll_to_pos" /\ ScrollToPosInRange(call'.a)) =>
            /\ ~panicked'
            /\ offset' = IF call'.a >= offset + page_len
                         THEN call'.a - page_len + 1
                         ELSE IF call'.a < offset THEN call'.a
                         ELSE offset]_vars

\* scroll_to_pos moved the page down just far enough: pos is the last line
\* of a page longer than one line.
C6_Witness ==
    /\ call.op = "scroll_to_pos"
    /\ overflow_checks /\ ~panicked
    /\ page_len > 1
    /\ call.a >= page_len
    /\ offset = call.a - page_len + 1
    /\ ret = TRUE

\* C7: set_offset, scroll_up, scroll_down, scroll_to_pos and the ViewState
\* setters return true exactly when the stored offset changed, and
\* set_offset(o) stores limit_offset(o).
C7_ChangedFlag ==
    [][/\ (call'.op \in {"set_offset", "scroll_up", "scroll_down", "scroll_to_pos"}
           /\ ~panicked') => (ret' = (offset' # offset))
       /\ call'.op = "set_offset" => offset' = Min(call'.a, ExactLimit)
       /\ call'.op = "set_vertical_offset" => (ret' = (v_offset' # v_offset))
       /\ call'.op = "set_horizontal_offset" => (ret' = (h_offset' # h_offset))]_vars

\* set_vertical_offset stored the offset it already had and returned false.
C7_Witness ==
    /\ call.op = "set_vertical_offset"
    /\ view_area.height > 1
    /\ v_offset = call.a
    /\ v_offset > 0
    /\ ret = FALSE

\* C8 as stated: scroll_by() is the explicit scroll_by when set and > 0,
\* otherwise max(page_len / 10, 1), and is >= 1.
C8_StepAsStated ==
    call.op = "scroll_by" =>
        /\ ret_usize = IF scroll_by.some /\ scroll_by.val > 0
                       THEN scroll_by.val
                       ELSE Max(page_len \div 10, 1)
        /\ ret_usize >= 1

\* C8 amended: scroll_by() is the explicit scroll_by when set and > 0, is 1
\* when scroll_by is set to 0 (whatever page_len is), and is
\* max(page_len / 10, 1) when scroll_by is unset; it is >= 1 in every state.
C8_EffectiveStep ==
    /\ (scroll_by.some /\ scroll_by.val > 0) => get_scroll_by(Self) = scroll_by.val
    /\ (scroll_by.some /\ scroll_by.val = 0) => get_scroll_by(Self) = 1
    /\ ~scroll_by.some => get_scroll_by(Self) = Max(page_len \div 10, 1)
    /\ get_scroll_by(Self) >= 1
    /\ call.op = "scroll_by" => ret_usize = get_scroll_by(Self)

\* scroll_by() returned 1 for an explicit 0 although page_len / 10 > 1.
C8_Witness ==
    /\ call.op = "scroll_by"
    /\ scroll_by = Some(0)
    /\ page_len \div 10 > 1
    /\ ret_usize = 1

\* C4: items_removed(at, n) never underflows or panics: max_offset becomes
\* max(max_offset - n, 0); the offset becomes max(offset - n, 0) when
\* offset >= at (also when n > offset) and is unchanged when offset < at.
C4_ItemsRemovedSaturates ==
    [][call'.op = "items_removed" =>
            /\ ~panicked'
            /\ max_offset' = Max(max_offset - call'.b, 0)
            /\ offset' = IF offset >= call'.a
                         THEN Max(offset - call'.b, 0)
                         ELSE offset]_vars

ScrollStateOf(o, m) ==
    [offset |-> o, max_offset |-> m, page_len |-> 0,
     scroll_by |-> None, overscroll_by |-> None]

\* C9: items_added(at, n) increases max_offset by n and increases the offset
\* by n exactly when offset >= at (wherever the sums are usize values);
\* from (10, 50), adding 5 at 3 gives (15, 55) and adding 5 at 20 gives
\* (10, 55).
C9_ItemsAdded ==
    /\ items_added(ScrollStateOf(10, 50), 3, 5, TRUE) = Returned(ScrollStateOf(15, 55), FALSE)
    /\ items_added(ScrollStateOf(10, 50), 20, 5, TRUE) = Returned(ScrollStateOf(10, 55), FALSE)
    /\ [][(/\ call'.op = "items_added"
           /\ max_offset + call'.b <= UsizeMax
           /\ offset >= call'.a => offset + call'.b <= UsizeMax)
          => /\ ~panicked'
             /\ max_offset' = max_offset + call'.b
             /\ offset' = IF offset >= call'.a THEN offset + call'.b ELSE offset]_vars

\* items_added at the offset itself shifted offset and max_offset.
C9_Witness ==
    /\ call.op = "items_added"
    /\ ~panicked
    /\ call.b > 0
    /\ pre.offset = call.a
    /\ offset = pre.offset + call.b
    /\ max_offset = pre.max_offset + call.b

\* C10: items_added(at, n) followed by items_removed(at, n) restores offset
\* and max_offset when offset >= at before the insertion; when offset < at
\* neither call changes the offset (wherever the sums of the insertion are
\* usize values).
C10_RoundTrip ==
    [][(/\ call.op = "items_added"
        /\ ~panicked
        /\ pre.max_offset + call.b <= UsizeMax
        /\ pre.offset >= call.a => pre.offset + call.b <= UsizeMax
        /\ call'.op = "items_removed"
        /\ call'.a = call.a
        /\ call'.b = call.b)
       => /\ ~panicked'
          /\ pre.offset >= call.a =>
                (offset' = pre.offset /\ max_offset' = pre.max_offset)
          /\ pre.offset < call.a =>
                (offset = pre.offset /\ offset' = pre.offset)]_vars

\* items_removed undid an insertion of n > 0 items at or before the offset.
C10_Witness ==
    /\ call.op = "items_removed"
    /\ prev = [call EXCEPT !.op = "items_added"]
    /\ ~panicked
    /\ call.b > 0
    /\ pre.offset >= call.a + call.b
    /\ offset = pre.offset - call.b
    /\ max_offset = pre.max_offset - call.b
    /\ pre.max_offset >= call.b

(***************************************************************************)
(* Mapping a pointer position to an offset (SpecMap)                       *)
(***************************************************************************)
UsableSpan == saturating_sub(args.length, 2)

\* C11: when the usable span of a track is zero (track length <= 2),
\* mapping a pointer position yields 0 instead of failing:
\* map_position_index returns 0, and the wrapper's mapping of a pointer-down
\* or drag completes, without a division-by-zero failure, with offset 0.
C11_ZeroSpanYieldsZero ==
    (call.op \in {"map_position_index", "track_pos"} /\ UsableSpan = 0)
        => (~panicked /\ ret_usize = 0)

\* C12: for a usable span > 0, map_position_index(pos, base, length) is
\* floor(max_offset * max(pos - base - 1, 0) / (length - 2)) (where the
\* product is a usize value); it is monotonic non-decreasing in pos, it is 0
\* whenever pos <= base + 1, and on a track of height 22 with max_offset 100
\* the centre position base + 11 maps to 50.
C12_MapPositionIndex ==
    /\ (call.op = "map_position_index" /\ UsableSpan > 0) =>
          LET exact == max_offset * Max(args.pos - args.base - 1, 0)
          IN /\ ~panicked
             /\ exact <= UsizeMax => ret_usize = exact \div (args.length - 2)
             /\ args.pos <= args.base + 1 => ret_usize = 0
             /\ \A p \in Positions :
                   p >= args.pos =>
                      map_position_index(Self, p, args.base, args.length).v >= ret_usize
    /\ \A base \in Origins :
          map_position_index_in(WideMax, 100, base + 11, base, 22) = Value(50)

\* A position in the middle of a track maps to an offset strictly between
\* 0 and max_offset.
C12_Witness ==
    /\ call.op = "map_position_index"
    /\ ~panicked
    /\ args.pos > args.base + 1
    /\ max_offset * (args.pos - args.base - 1) <= UsizeMax
    /\ ret_usize > 0
    /\ ret_usize < max_offset

(***************************************************************************)
(* layout_scroll (SpecLayout)                                              *)
(***************************************************************************)
LayoutReturned == call.op = "layout_scroll" /\ ~panicked

\* The cells a side of the outer rectangle loses: one if the side has a
\* border or a scrollbar.
LostLeft ==
    IF args.block \/ (args.v_scroll.some /\ args.v_scroll.orientation = "VerticalLeft")
    THEN 1 ELSE 0
LostRight ==
    IF args.block \/ (args.v_scroll.some /\ args.v_scroll.orientation = "VerticalRight")
    THEN 1 ELSE 0
LostTop ==
    IF args.block \/ (args.h_scroll.some /\ args.h_scroll.orientation = "HorizontalTop")
    THEN 1 ELSE 0
LostBottom ==
    IF args.block \/ (args.h_scroll.some /\ args.h_scroll.orientation = "HorizontalBottom")
    THEN 1 ELSE 0

\* C13: layout_scroll panics whenever the horizontal scrollbar argument
\* carries a Vertical* orientation or the vertical scrollbar argument a
\* Horizontal* orientation; in particular a default-constructed Scroll
\* passed as the horizontal scrollbar fails.
C13_OrientationMismatchPanics ==
    call.op = "layout_scroll" =>
        /\ (args.h_scroll.some /\ args.h_scroll.orientation \in VerticalOrientations)
              => panicked
        /\ (args.v_scroll.some /\ args.v_scroll.orientation \in HorizontalOrientations)
              => panicked
        /\ args.h_scroll = DefaultScroll => panicked

C13_Witness ==
    /\ call.op = "layout_scroll"
    /\ args.h_scroll = DefaultScroll
    /\ args.v_scroll.some /\ args.v_scroll.orientation \in VerticalOrientations
    /\ panicked

\* C14: with a border and both scrollbars active (every valid orientation
\* pair, every start/end margin), the horizontal track, the vertical track
\* and the interior returned by layout_scroll share no cell pairwise.
C14_TracksAndInteriorDisjoint ==
    (LayoutReturned /\ args.block /\ args.h_scroll.some /\ args.v_scroll.some) =>
        /\ ~Overlap(result.h_area, result.v_area)
        /\ ~Overlap(result.h_area, result.inner)
        /\ ~Overlap(result.v_area, result.inner)

C14_Witness ==
    /\ LayoutReturned /\ args.block /\ args.h_scroll.some /\ args.v_scroll.some
    /\ ~IsEmpty(result.h_area) /\ ~IsEmpty(result.v_area) /\ ~IsEmpty(result.inner)
    /\ args.h_scroll.orientation = "HorizontalTop"
    /\ args.v_scroll.orientation = "VerticalLeft"

\* C15: the interior is the outer rectangle shrunk by exactly one cell on
\* each side that has a border or a scrollbar; a side with both still loses
\* only one cell; interior width and height saturate at 0.
C15_Interior ==
    LayoutReturned =>
        result.inner = Rect(args.area.x + LostLeft, args.area.y + LostTop,
                            Max(args.area.width - LostLeft - LostRight, 0),
                            Max(args.area.height - LostTop - LostBottom, 0))

\* A right side with a border and a scrollbar, and a bottom side with a
\* scrollbar only.
C15_Witness ==
    /\ LayoutReturned
    /\ args.block /\ args.v_scroll.some /\ args.v_scroll.orientation = "VerticalRight"
    /\ result.inner.width = args.area.width - 2
    /\ result.inner.width > 0 /\ result.inner.height > 0

\* C16: the horizontal track has x = outer.x + left margin + start_margin,
\* width = max(outer.width - left margin - right margin - start_margin -
\* end_margin, 0), y = outer.y (HorizontalTop) or outer.y + max(outer.height
\* - 1, 0) (HorizontalBottom), height 1 if outer.height > 0 else 0; the
\* vertical track is the same with rows and columns exchanged; an absent
\* scrollbar yields an empty track.
C16_Tracks ==
    LayoutReturned =>
        LET a == args.area
            h == args.h_scroll
            v == args.v_scroll
        IN /\ h.some =>
                 result.h_area =
                     Rect(a.x + LostLeft + h.start_margin,
                          IF h.orientation = "HorizontalTop" THEN a.y
                          ELSE a.y + Max(a.height - 1, 0),
                          Max(a.width - LostLeft - LostRight - h.start_margin - h.end_margin, 0),
                          IF a.height > 0 THEN 1 ELSE 0)
           /\ v.some =>
                 result.v_area =
                     Rect(IF v.orientation = "VerticalLeft" THEN a.x
                          ELSE a.x + Max(a.width - 1, 0),
                          a.y + LostTop + v.start_margin,
                          IF a.width > 0 THEN 1 ELSE 0,
                          Max(a.height - LostTop - LostBottom - v.start_margin - v.end_margin, 0))
           /\ ~h.some => IsEmpty(result.h_area)
           /\ ~v.some => IsEmpty(result.v_area)

C16_Witness ==
    /\ LayoutReturned
    /\ args.h_scroll.some /\ args.h_scroll.start_margin > 0 /\ args.h_scroll.end_margin > 0
    /\ args.h_scroll.orientation = "HorizontalBottom"
    /\ ~args.v_scroll.some
    /\ result.h_area.width > 0
    /\ result.h_area.y > args.area.y

(***************************************************************************)
(* Frames of the composite wrapper (SpecScrolled)                          *)
(***************************************************************************)
Rendered == call.op = "render_ref" /\ ~panicked

\* What the claims call "shown": the policy is Always, or it is AsNeeded
\* and the content reported that axis as needing scrolling.
Shown(policy, needed) == policy = "Always" \/ (policy = "AsNeeded" /\ needed)

\* C17: in every composite render an axis's chrome is treated as shown iff
\* its policy is Always, or AsNeeded with the content's extent query
\* reporting that axis as needing scrolling; with Never it is not shown
\* whatever the query returns.  The two axes are decided independently.
C17_PolicyDecides ==
    call.op = "render_ref" =>
        /\ frame.has_hscroll = Shown(args.scrolled.h_scroll_policy, frame.need[1])
        /\ frame.has_vscroll = Shown(args.scrolled.v_scroll_policy, frame.need[2])
        /\ args.scrolled.h_scroll_policy = "Never" => ~frame.has_hscroll
        /\ args.scrolled.v_scroll_policy = "Never" => ~frame.has_vscroll
        /\ (Rendered /\ ~args.scrolled.block) =>
              /\ scrolled.view_area.width =
                     saturating_sub(args.area.width, IF frame.has_vscroll THEN 1 ELSE 0)
              /\ scrolled.view_area.height =
                     saturating_sub(args.area.height, IF frame.has_hscroll THEN 1 ELSE 0)

\* Both policies AsNeeded, the content needs horizontal scrolling only: the
\* horizontal chrome is shown, the vertical is not.
C17_Witness ==
    /\ Rendered
    /\ args.scrolled.h_scroll_policy = "AsNeeded"
    /\ args.scrolled.v_scroll_policy = "AsNeeded"
    /\ frame.need = <<TRUE, FALSE>>
    /\ frame.has_hscroll /\ ~frame.has_vscroll

\* C18: after every composite render, state.h_scrollbar_area (resp.
\* v_scrollbar_area) is None when that axis's chrome is not shown in that
\* frame, including a frame that follows one in which it was shown, and is
\* Some(track rectangle) when it is shown.
C18_AreasFollowShown ==
    Rendered =>
        /\ scrolled.h_scrollbar_area =
              IF frame.has_hscroll
              THEN SomeRect(hscrollbar_area(args.scrolled, args.area, frame.has_vscroll))
              ELSE NoRect
        /\ scrolled.v_scrollbar_area =
              IF frame.has_vscroll
              THEN SomeRect(vscrollbar_area(args.scrolled, args.area, frame.has_hscroll))
              ELSE NoRect

\* C19: with policy AsNeeded on both axes, no block, and content that fits
\* (the extent query reports no need on either axis), in every frame of any
\* render sequence no scrollbar chrome is drawn and state.view_area equals
\* the full outer area.  Content that fits has nothing to scroll: its
\* maximum offsets are 0.
C19_NoChromeWhenContentFits ==
    (/\ Rendered
     /\ args.scrolled.h_scroll_policy = "AsNeeded"
     /\ args.scrolled.v_scroll_policy = "AsNeeded"
     /\ ~args.scrolled.block
     /\ frame.need = <<FALSE, FALSE>>
     /\ frame.h_max_offset = 0 /\ frame.v_max_offset = 0) =>
        /\ ~frame.h_drawn
        /\ ~frame.v_drawn
        /\ scrolled.view_area = args.area

\* C20: when both axes are shown in a frame, the vertical track is shortened
\* by one row at its end and the horizontal track by one column at its end,
\* so state.v_scrollbar_area and state.h_scrollbar_area share no cell, and
\* (without a block) neither shares a cell with state.view_area.
C20_TracksApart ==
    (Rendered /\ frame.has_hscroll /\ frame.has_vscroll) =>
        LET a == args.area
            v == scrolled.v_scrollbar_area
            h == scrolled.h_scrollbar_area
            border == IF args.scrolled.block THEN 1 ELSE 0
        IN /\ v.some /\ h.some
           /\ v.rect = Rect(a.x + a.width - 1, a.y + border, 1,
                            saturating_sub(saturating_sub(a.height, border), 1))
           /\ h.rect = Rect(a.x + border, a.y + a.height - 1,
                            saturating_sub(saturating_sub(a.width, border), 1), 1)
           /\ ~Overlap(v.rect, h.rect)
           /\ ~args.scrolled.block =>
                 /\ ~Overlap(v.rect, scrolled.view_area)
                 /\ ~Overlap(h.rect, scrolled.view_area)

C20_Witness ==
    /\ Rendered /\ frame.has_hscroll /\ frame.has_vscroll
    /\ ~args.scrolled.block
    /\ ~IsEmpty(scrolled.v_scrollbar_area.rect)
    /\ ~IsEmpty(scrolled.h_scrollbar_area.rect)
    /\ ~IsEmpty(scrolled.view_area)

(***************************************************************************)
(* The window mechanism (SpecView, SpecWindow)                             *)
(***************************************************************************)
\* C27: after any ViewState::set_vertical_offset(o) or
\* set_horizontal_offset(o), for every requested o, the stored offset on
\* that axis is at most the declared extent minus 1 (view_area height resp.
\* width minus 1, saturating at 0).
C27_OffsetBelowExtent ==
    /\ call.op = "set_vertical_offset" => v_offset <= saturating_sub(view_area.height, 1)
    /\ call.op = "set_horizontal_offset" => h_offset <= saturating_sub(view_area.width, 1)

\* C28: the derived maximum offset per axis is view_area.dimension -
\* area.dimension saturating at 0, and after any sequence of renders and
\* offset mutations each stored offset lies in [0, that maximum].
C28_OffsetWithinDerivedMax ==
    /\ view_vertical_max_offset(ViewSelf) = Max(view_area.height - area.height, 0)
    /\ view_horizontal_max_offset(ViewSelf) = Max(view_area.width - area.width, 0)
    /\ 0 <= v_offset /\ v_offset <= view_vertical_max_offset(ViewSelf)
    /\ 0 <= h_offset /\ h_offset <= view_horizontal_max_offset(ViewSelf)

\* C29: the extent query of the window mechanism reports, independently per
\* axis, needsHorizontal = (available width < declared view width) and
\* needsVertical = (available height < declared view height); equal sizes
\* report no need.
C29_NeedScroll ==
    call.op = "need_scroll" =>
        /\ result.need[1] = (args.area.width < args.view_size.width)
        /\ result.need[2] = (args.area.height < args.view_size.height)
        /\ args.area.width = args.view_size.width => ~result.need[1]
        /\ args.area.height = args.view_size.height => ~result.need[2]

\* Equal widths (no horizontal need) next to a view higher than the area.
C29_Witness ==
    /\ call.op = "need_scroll"
    /\ args.area.width = args.view_size.width /\ args.area.width > 0
    /\ args.area.height < args.view_size.height
    /\ result.need = <<FALSE, TRUE>>

\* C30: the content is rendered in full into the virtual surface view_area
\* = (area.x, area.y, view_size.width, view_size.height) regardless of the
\* offsets, and each cell (x, y) of the drawing area receives the virtual
\* cell (x + h_offset, y + v_offset) when that lies inside the virtual
\* surface and the fallback style otherwise; at offset 0 with content
\* smaller than the viewport the overlapping region is the content's output
\* unchanged and the rest is exactly fallback style.
C30_WindowRender ==
    call.op = "render" =>
        /\ view_area = Rect(args.area.x, args.area.y,
                            args.view_size.width, args.view_size.height)
        /\ DOMAIN result.buf = Cells(args.area)
        /\ \A c \in Cells(args.area) :
              LET v == <<c[1] + h_offset, c[2] + v_offset>>
              IN result.buf[c] = IF v \in Cells(view_area)
                                 THEN ContentCell(v[1], v[2])
                                 ELSE FallbackCell
        /\ (h_offset = 0 /\ v_offset = 0) =>
              \A c \in Cells(args.area) :
                 result.buf[c] = IF c \in Cells(view_area)
                                 THEN ContentCell(c[1], c[2])
                                 ELSE FallbackCell

\* A scrolled window that shows content cells and fallback cells.
C30_Witness ==
    /\ call.op = "render"
    /\ h_offset > 0 /\ v_offset > 0
    /\ args.area.x > 0
    /\ \E c \in Cells(args.area) : result.buf[c].content
    /\ \E c \in Cells(args.area) : ~result.buf[c].content

(***************************************************************************)
(* The sides of the tracks (SpecSides)                                     *)
(***************************************************************************)
ShownVColumn ==
    track_column(VScrollPosition_orientation(args.scrolled.v_scroll_position),
                 scrolled.v_scrollbar_area.rect)
ShownHRow ==
    track_row(HScrollPosition_orientation(args.scrolled.h_scroll_position),
              scrolled.h_scrollbar_area.rect)

\* C21: the composite wrapper places each shown track on its configured
\* side: the vertical track occupies the leftmost column of the outer area
\* for VScrollPosition::Left and the rightmost for Right, the horizontal
\* track the top row for HScrollPosition::Top and the bottom row for Bottom,
\* and (without a block) the interior is the outer area minus the cell line
\* on that same side.
C21_TracksOnConfiguredSide ==
    (call.op = "render_ref" /\ ~panicked) =>
        LET a == scrolled.area
            left == frame.has_vscroll /\ args.scrolled.v_scroll_position = "Left"
            top == frame.has_hscroll /\ args.scrolled.h_scroll_position = "Top"
        IN /\ frame.has_vscroll =>
                /\ scrolled.v_scrollbar_area.some
                /\ ShownVColumn = IF args.scrolled.v_scroll_position = "Left"
                                  THEN a.x ELSE a.x + a.width - 1
           /\ frame.has_hscroll =>
                /\ scrolled.h_scrollbar_area.some
                /\ ShownHRow = IF args.scrolled.h_scroll_position = "Top"
                               THEN a.y ELSE a.y + a.height - 1
           /\ ~args.scrolled.block =>
                scrolled.view_area =
                    Rect(IF left THEN a.x + 1 ELSE a.x,
                         IF top THEN a.y + 1 ELSE a.y,
                         IF frame.has_vscroll THEN a.width - 1 ELSE a.width,
                         IF frame.has_hscroll THEN a.height - 1 ELSE a.height)


(***************************************************************************)
(* Events of the composite state (SpecEvents)                              *)
(***************************************************************************)
OnVTrack ==
    /\ args.state.v_scrollbar_area.some
    /\ Contains(args.state.v_scrollbar_area.rect, args.event.column, args.event.row)
OnHTrack ==
    /\ args.state.h_scrollbar_area.some
    /\ Contains(args.state.h_scrollbar_area.rect, args.event.column, args.event.row)
\* hit_to_offset as specified: 0 for a track without usable span.
HitToOffset(max, pos, base, length) ==
    IF saturating_sub(length, 2) = 0 THEN 0
    ELSE (max * saturating_sub(saturating_sub(pos, base), 1)) \div saturating_sub(length, 2)

\* C22: a left pointer-down at a position inside the shown vertical (resp.
\* horizontal) track sets the content's vertical (resp. horizontal) offset
\* to the hit_to_offset value of that position for that track and sets
\* v_drag (resp. h_drag) to true; a pointer-down outside both tracks sets
\* neither drag flag.
C22_PointerDown ==
    (call.op = "handle" /\ args.event.kind = "down") =>
        LET old == args.state
            v == old.v_scrollbar_area.rect
            h == old.h_scrollbar_area.rect
        IN /\ OnVTrack =>
                /\ ~panicked
                /\ scrolled.v_drag
                /\ scrolled.widget.v_offset =
                      HitToOffset(old.widget.v_max_offset, args.event.row, v.y, v.height)
           /\ OnHTrack =>
                /\ ~panicked
                /\ scrolled.h_drag
                /\ scrolled.widget.h_offset =
                      HitToOffset(old.widget.h_max_offset, args.event.column, h.x, h.width)
           /\ (~OnVTrack /\ ~OnHTrack) =>
                /\ scrolled.v_drag = old.v_drag
                /\ scrolled.h_drag = old.h_drag

\* C23: every pointer-move event with no button held that is handled by the
\* composite state leaves v_drag = false and h_drag = false afterwards,
\* whatever the content's own handler returns for that event.
C23_MoveClearsDrag ==
    (call.op = "handle" /\ args.event.kind = "moved") =>
        (~scrolled.v_drag /\ ~scrolled.h_drag)

\* C24: while v_drag or h_drag is set, a left pointer-drag event is handled
\* by the wrapper's drag logic and reported as consumed unconditionally,
\* before and independently of the content's own handler; only when no drag
\* is active does the content get the event first.
C24_DragPrecedence ==
    (call.op = "handle" /\ args.event.kind = "drag") =>
        IF args.state.v_drag \/ args.state.h_drag
        THEN ~result.asked /\ is_consumed(result.outcome)
        ELSE result.asked

\* The content did not consume the event.
Unconsumed == ~(result.asked /\ args.consumed)
WheelLimit(axis) ==
    IF axis = "v" THEN args.state.widget.v_max_offset + args.state.v_overscroll
    ELSE args.state.widget.h_max_offset + args.state.h_overscroll
WheelExample ==
    LET s == [ScrolledStateDefault EXCEPT !.widget = ContentOf(180, 0, 20, 0),
                                          !.area = Rect(0, 0, 10, 20)]
        r == scrolled_handle(WideMax, TRUE, s,
                             [kind |-> "scroll_down", column |-> 0, row |-> 0], FALSE)
    IN /\ content_vertical_scroll(s) = 2
       /\ r.state.widget.v_offset = 2
       /\ r.outcome = Changed

\* C25: a wheel-down (wheel-up) event positioned inside the outer area that
\* the content did not consume moves the vertical offset down (up) by the
\* content's vertical step, and with the ALT modifier the horizontal offset
\* right (left) by the horizontal step, the result limited to
\* [0, max_offset + overscroll]; the outcome is Changed iff the offset
\* changed; a wheel event outside the outer area changes no offset.  E.g.
\* max_offset 180, page_len 20, offset 0: wheel-down gives step 2 and
\* offset 2.
C25_Wheel ==
    /\ WheelExample
    /\ (call.op = "handle" /\ Unconsumed
            /\ args.event.kind \in {"scroll_down", "scroll_up",
                                    "scroll_alt_down", "scroll_alt_up"}) =>
        LET old == args.state.widget
            new == scrolled.widget
            kind == args.event.kind
            v_step == Max(old.v_page \div 10, 1)
            h_step == Max(old.h_page \div 10, 1)
            moved == new.v_offset # old.v_offset \/ new.h_offset # old.h_offset
        IN IF Contains(args.state.area, args.event.column, args.event.row)
           THEN /\ ~panicked
                /\ new.v_offset =
                      CASE kind = "scroll_down" -> Min(old.v_offset + v_step, WheelLimit("v"))
                        [] kind = "scroll_up" -> Max(old.v_offset - v_step, 0)
                        [] OTHER -> old.v_offset
                /\ new.h_offset =
                      CASE kind = "scroll_alt_down" -> Min(old.h_offset + h_step, WheelLimit("h"))
                        [] kind = "scroll_alt_up" -> Max(old.h_offset - h_step, 0)
                        [] OTHER -> old.h_offset
                /\ result.outcome = IF moved THEN Changed ELSE NotUsed
           ELSE new = old

\* A wheel-down that is cut at the limit, seen by the content first.
C25_Witness ==
    /\ call.op = "handle" /\ args.event.kind = "scroll_down"
    /\ result.asked /\ ~args.consumed
    /\ args.state.v_overscroll > 0
    /\ scrolled.widget.v_offset = args.state.widget.v_offset + 1
    /\ scrolled.widget.v_offset = WheelLimit("v")
    /\ result.outcome = Changed


(***************************************************************************)
(* Offsets of the composite state (SpecOffsets)                            *)
(***************************************************************************)
\* C26: for content that stores the offset it is given, after any sequence
\* of ScrolledState::set_vertical_offset, set_horizontal_offset, scroll_up,
\* scroll_down, scroll_left, scroll_right calls and handled pointer-down,
\* pointer-drag and wheel events (max_offset and overscroll fixed), the
\* content's offset on each axis never exceeds that axis's max_offset +
\* overscroll.
C26_OffsetWithinLimit ==
    /\ scrolled.widget.v_offset <= scrolled.widget.v_max_offset + scrolled.v_overscroll
    /\ scrolled.widget.h_offset <= scrolled.widget.h_max_offset + scrolled.h_overscroll

\* A drag beyond the end of the track, stopped at max_offset + overscroll.
C26_Witness ==
    /\ call.op = "drag"
    /\ scrolled.v_drag
    /\ scrolled.v_overscroll > 0
    /\ scrolled.widget.v_max_offset > 0
    /\ scrolled.widget.v_offset = scrolled.widget.v_max_offset + scrolled.v_overscroll


(***************************************************************************)
(* The tentative interior and empty outer areas (SpecScrolled)             *)
(***************************************************************************)
\* C31: without a block, the tentative interior passed to the content's
\* extent query reserves one column (width - 1) exactly when the vertical
\* scrollbar policy is not Never and one row (height - 1) exactly when the
\* horizontal scrollbar policy is not Never, each axis's reservation
\* depending only on that axis's own policy.
C31_TentativeInterior ==
    (call.op = "render_ref" /\ ~args.scrolled.block) =>
        LET a == args.area
        IN frame.asked_area =
              Rect(a.x, a.y,
                   IF args.scrolled.v_scroll_policy # "Never"
                   THEN saturating_sub(a.width, 1) ELSE a.width,
                   IF args.scrolled.h_scroll_policy # "Never"
                   THEN saturating_sub(a.height, 1) ELSE a.height)

\* C32: rendering the composite wrapper into an outer area of zero width or
\* zero height with a scrollbar shown does not fail: the render completes
\* and the track rectangle of the shown axis is empty.
C32_EmptyAreaRenders ==
    (call.op = "render_ref" /\ (args.area.width = 0 \/ args.area.height = 0)) =>
        /\ ~panicked
        /\ frame.has_vscroll =>
              (scrolled.v_scrollbar_area.some /\ IsEmpty(scrolled.v_scrollbar_area.rect))
        /\ frame.has_hscroll =>
              (scrolled.h_scrollbar_area.some /\ IsEmpty(scrolled.h_scrollbar_area.rect))


(***************************************************************************)
(* The forwarding filter (SpecEvents)                                      *)
(***************************************************************************)
FilteredKinds == {"down", "scroll_down", "scroll_up", "scroll_alt_down", "scroll_alt_up"}
\* What the wrapper's own mouse handling makes of the event.
OwnHandling == mouse_handling(UsizeMax, overflow_checks, args.state, args.event, result.asked)

\* C33: left pointer-down and wheel events (plain or ALT) are passed to the
\* content's handler only when their position is inside state.view_area;
\* every other event is always passed to the content; the wrapper's own
\* mouse handling runs exactly when the forwarding stage did not consume
\* the event, so the overall result is that of the first consuming stage.
C33_ForwardingFilter ==
    call.op = "handle" =>
        /\ result.asked =
              IF args.event.kind \in FilteredKinds
              THEN Contains(args.state.view_area, args.event.column, args.event.row)
              ELSE TRUE
        /\ IF result.asked /\ args.consumed
           THEN /\ result.outcome = Inner(TRUE)
                /\ scrolled = args.state
                /\ ~panicked
           ELSE /\ result.outcome = OwnHandling.outcome
                /\ scrolled = OwnHandling.state
                /\ panicked = OwnHandling.panic

\* A pointer-down on the vertical track: not passed to the content, handled
\* by the wrapper.
C33_Witness ==
    /\ call.op = "handle" /\ args.event.kind = "down"
    /\ ~result.asked /\ args.consumed
    /\ ~args.state.v_drag /\ scrolled.v_drag
    /\ result.outcome = Changed


(***************************************************************************)
(* Lowered limits (SpecShrink)                                             *)
(***************************************************************************)
\* C35: set_max_offset, set_overscroll_by and set_page_len never change the
\* stored offset, so after the limit is lowered the offset may exceed
\* max_offset + overscroll_by without any error; the first subsequent
\* set_offset, scroll_up or scroll_down call (with any argument, including
\* n = 0) restores offset <= max_offset + overscroll_by.
C35_LimitRestored ==
    /\ ~panicked
    /\ call.op \in {"set_max_offset", "set_overscroll_by", "set_page_len"} =>
          offset = pre.offset
    /\ call.op \in {"set_offset", "scroll_up", "scroll_down"} =>
          offset <= max_offset + get_overscroll_by(Self)

\* scroll_up(0) on an offset that was above the lowered limit.
C35_Witness ==
    /\ call.op = "scroll_up" /\ call.a = 0
    /\ pre.max_offset = max_offset
    /\ pre.offset > max_offset + get_overscroll_by(Self)
    /\ offset = max_offset + get_overscroll_by(Self)


(***************************************************************************)
(* Pointer positions inside a track (SpecMap)                              *)
(***************************************************************************)
InTrack == args.pos \in args.base..(args.base + args.length - 1)

\* C36: for a left pointer-down inside a track whose usable span is > 0
\* (track length >= 3), the offset computed from the pointer position lies
\* in [0, max_offset] for every position in the track, and the last cell of
\* the track maps to exactly max_offset (where max_offset times the usable
\* span is a usize value).
C36_HitWithinMax ==
    (call.op \in {"map_position_index", "track_pos"} /\ args.length >= 3 /\ InTrack) =>
        /\ ~panicked => (0 <= ret_usize /\ ret_usize <= max_offset)
        /\ max_offset * (args.length - 2) <= UsizeMax =>
              /\ ~panicked
              /\ args.pos = args.base + args.length - 1 => ret_usize = max_offset

\* The wrapper's computation for the last cell of a track.
C36_Witness ==
    /\ call.op = "track_pos"
    /\ ~panicked
    /\ args.base > 0
    /\ args.length >= 3
    /\ args.pos = args.base + args.length - 1
    /\ max_offset > 1
    /\ ret_usize = max_offset


(***************************************************************************)
(* Drag flags (SpecOffsets)                                                *)
(***************************************************************************)
\* C37: in the composite state, v_drag and h_drag are never both true:
\* after any sequence of pointer-down, pointer-drag, pointer-move and wheel
\* events at most one axis has a drag in progress.
C37_OneDragAtATime == ~(scrolled.v_drag /\ scrolled.h_drag)


(***************************************************************************)
(* The window setters at or above the extent (SpecView)                    *)
(***************************************************************************)
C39_Step ==
    /\ (call'.op = "set_vertical_offset" /\ v_offset >= view_area.height) =>
          /\ v_offset' = Max(view_area.height - 1, 0)
          /\ h_offset' = h_offset
    /\ (call'.op = "set_horizontal_offset" /\ h_offset >= view_area.width) =>
          /\ h_offset' = Max(view_area.width - 1, 0)
          /\ v_offset' = v_offset
    /\ (call'.op \in {"set_vertical_offset", "set_horizontal_offset"}
            /\ view_area.width = 0 /\ view_area.height = 0
            /\ v_offset = 0 /\ h_offset = 0) =>
          (v_offset' = 0 /\ h_offset' = 0 /\ ~ret')

\* C39: ViewState::set_vertical_offset(o) (and its horizontal twin) ignores
\* the requested value whenever the current offset is at or above the
\* declared extent, storing declaredExtent - 1 (0 when the extent is 0)
\* instead; in particular before the first render (view_area empty) every
\* set call leaves the offset at 0 and returns false.
C39_RequestIgnored == [][C39_Step]_vars

\* A request for offset 0 that stored declaredExtent - 1 > 0.
C39_Witness ==
    /\ call.op = "set_vertical_offset" /\ call.a = 0
    /\ v_offset > 0
    /\ v_offset = view_area.height - 1

HandleCalled == call.op \in {"ScrollArea::handle", "ScrollState::handle"}

Settings(state) ==
    <<state.offset, state.max_offset, state.page_len, state.scroll_by,
      state.overscroll_by, state.area>>

\* C38: ScrollState::handle and ScrollArea::handle only report an outcome:
\* whatever the event, offset, max_offset, page_len, scroll_by, overscroll_by
\* and area of the scroll states involved are as before the call.
C38_HandleOnlyReports ==
    HandleCalled =>
        /\ Settings(result.h.st) = Settings(args.h.st)
        /\ Settings(result.v.st) = Settings(args.v.st)
        /\ result.h.some = args.h.some
        /\ result.v.some = args.v.some

C38_Witness ==
    /\ call.op = "ScrollArea::handle"
    /\ args.event.kind = "down"
    /\ result.outcome.tag = "VPos"
    /\ result.outcome.n # args.v.st.offset
    /\ result.v.st.offset = args.v.st.offset
    /\ result.v.st.drag /\ ~args.v.st.drag

InHandleArea == Contains(args.area, args.event.column, args.event.row)
OnTrackOf(slot) == slot.some /\ Contains(slot.st.area, args.event.column, args.event.row)
Dragging(slot) == slot.some /\ slot.st.drag /\ args.event.kind = "drag"

\* The wheel and precedence parts of C40.
AreaWheelAndOrder ==
    /\ (args.event.kind = "scroll_down" /\ InHandleArea) =>
          result.outcome = (IF args.v.some THEN Down(get_scroll_by(args.v.st)) ELSE Continue)
    /\ (args.event.kind = "scroll_up" /\ InHandleArea) =>
          result.outcome = (IF args.v.some THEN Up(get_scroll_by(args.v.st)) ELSE Continue)
    /\ (args.event.kind = "scroll_alt_down" /\ InHandleArea) =>
          result.outcome = (IF args.h.some THEN Right(get_scroll_by(args.h.st)) ELSE Continue)
    /\ (args.event.kind = "scroll_alt_up" /\ InHandleArea) =>
          result.outcome = (IF args.h.some THEN Left(get_scroll_by(args.h.st)) ELSE Continue)
    /\ (args.event.kind = "down" /\ OnTrackOf(args.h) /\ OnTrackOf(args.v)) =>
          /\ ~result.panic
          /\ result.outcome.tag = "HPos"
          /\ result.v = args.v

\* C40 as stated: a plain wheel event inside the area yields Down/Up of the
\* vertical state's step iff that state is present, an ALT wheel event
\* inside the area yields Right/Left of the horizontal state's step iff that
\* state is present, the horizontal state is consulted before the vertical
\* one, and every event outside the area and outside both tracks yields
\* Continue.
C40_AreaOutcome ==
    call.op = "ScrollArea::handle" =>
        /\ AreaWheelAndOrder
        /\ (~InHandleArea /\ ~OnTrackOf(args.h) /\ ~OnTrackOf(args.v)) =>
              (~result.panic /\ result.outcome = Continue)

\* C40 amended: as stated, but an event outside the area and outside both
\* tracks yields Continue unless it is a left pointer-drag while a drag of one
\* of the two states is in progress.
C40_AreaOutcomeUnlessDragging ==
    call.op = "ScrollArea::handle" =>
        /\ AreaWheelAndOrder
        /\ (/\ ~InHandleArea /\ ~OnTrackOf(args.h) /\ ~OnTrackOf(args.v)
            /\ ~Dragging(args.h) /\ ~Dragging(args.v)) =>
              (~result.panic /\ result.outcome = Continue)

C40_Witness ==
    /\ call.op = "ScrollArea::handle"
    /\ args.event.kind = "scroll_down"
    /\ InHandleArea
    /\ args.h.some /\ is_horizontal(args.h.st) /\ args.h.st.drag
    /\ args.v.some /\ ~IsEmpty(args.v.st.area)
    /\ result.outcome = Down(3)
    /\ get_scroll_by(args.h.st) = 2

====
